---- MODULE Spec2Model ----
(***************************************************************************)
(* Model of the WNS resolver background service worker                     *)
(* (src/chrome/background.js): the RESOLVE message handler, the cooldown   *)
(* wrapper, the cache read / chunked RPC / cache write loop of             *)
(* resolveAddresses, and the attribution loop of resolveViaRPC.  Every     *)
(* await of the source is a suspension point: a request moves from one pc  *)
(* value to the next in one action, and actions of different requests      *)
(* interleave freely.  Time is a discrete clock.                           *)
(***************************************************************************)
EXTENDS Integers, Sequences, FiniteSets, TLC

\* ------------------------------------------------------------------ bounds
NumReq == 2
MaxAddrs == 2
MaxAddrsConc == 1
MaxBatch == 2
StartTime == 2
MaxTime == 5

\* ------------------------------------------------- configuration values
\* The configuration values the model runs with, in clock ticks.
CooldownTicks == 2
TtlTicks == 3

\* --------------------------------------------------------- JS constants
Null == "null"
Undefined == "undefined"

\* ------------------------------------------------------------ addresses
\* An address is the sequence of its characters.
HexLen == 40

HexDigits ==
  {"0", "1", "2", "3", "4", "5", "6", "7", "8", "9",
   "a", "b", "c", "d", "e", "f", "A", "B", "C", "D", "E", "F"}

MkAddr(d, n) == <<"0", "x">> \o [i \in 1..n |-> d]

\* /^0x[0-9a-fA-F]{40}$/
VALID_ADDR(a) ==
  /\ Len(a) = 2 + HexLen
  /\ a[1] = "0"
  /\ a[2] = "x"
  /\ \A i \in 3..Len(a) : a[i] \in HexDigits

LowerChar(c) ==
  CASE c = "A" -> "a"
    [] c = "B" -> "b"
    [] c = "C" -> "c"
    [] c = "D" -> "d"
    [] c = "E" -> "e"
    [] c = "F" -> "f"
    [] c = "X" -> "x"
    [] OTHER -> c

toLowerCase(a) == [i \in 1..Len(a) |-> LowerChar(a[i])]

\* A cache key that keeps the letter case of the address.
cacheKeyRaw(address) == <<"wns_", address>>

\* cacheKey (lines 192-194)
cacheKey(address) == <<"wns_", toLowerCase(address)>>

\* The strings a RESOLVE message may carry: an address in capitals, a second
\* address, and strings that are not addresses (one digit short, one digit
\* long, a digit that is not hexadecimal, a capital X in the marker).
AddrUp == MkAddr("A", HexLen)
AddrB == MkAddr("b", HexLen)
\* The lowercase twin of AddrUp.
AddrLow == MkAddr("a", HexLen)
AddrBad == MkAddr("a", HexLen - 1)
AddrLong == MkAddr("a", HexLen + 1)
AddrNonHex == Append(MkAddr("a", HexLen - 1), "g")
AddrBigX == <<"0", "X">> \o [i \in 1..HexLen |-> "a"]

\* An entry of message.addresses: its typeof and, for a string, its characters.
Str(a) == [typeof |-> "string", value |-> a]

NotAString == [typeof |-> "number", value |-> <<>>]

Entries ==
  {Str(AddrUp), Str(AddrB), Str(AddrBad), Str(AddrLong), Str(AddrNonHex),
   Str(AddrBigX), NotAString}

SeqsUpTo(S, n) == UNION {[1..k -> S] : k \in 0..n}

\* A RESOLVE message: message.addresses is an array of entries, or is no array.
MsgsOf(S, n) ==
  {[isArray |-> TRUE, addresses |-> a] : a \in SeqsUpTo(S, n)}
  \cup {[isArray |-> FALSE, addresses |-> <<>>]}

Messages == MsgsOf(Entries, MaxAddrs)

ConcMessages == MsgsOf(Entries, MaxAddrsConc)

LiveMessages == MsgsOf({Str(AddrUp), Str(AddrBad)}, MaxAddrsConc)

Names == {"n1", "n2"}
NameOrNull == Names \cup {Null}

Req == 1..NumReq

\* --------------------------------------------------------------- JS Map
EmptyMap == [k \in {} |-> Null]

MapSet(m, k, v) == [x \in (DOMAIN m) \cup {k} |-> IF x = k THEN v ELSE m[x]]

MapGet(m, k) == IF k \in DOMAIN m THEN m[k] ELSE Undefined

Truthy(v) == v \notin {Null, Undefined, ""}

\* ------------------------------------------------------------ variables
VARIABLES
  now,          \* Date.now()
  lastRpcTime,  \* background.js: let lastRpcTime
  stored,       \* the configuration getConfig() returns
  cache,        \* the wns_ keys of chrome.storage.local
  pc,           \* position of each RESOLVE request
  addresses,    \* the filtered address list of each request
  wakeAt,       \* expiry of the setTimeout of waitForCooldown
  conf,         \* locals of resolveAddresses: cacheEnabled, cacheTtlMs, maxBatch
  cached,       \* local of resolveAddresses: result of storage.local.get(keys)
  readNow,      \* local of resolveAddresses: now of the cache read
  uncached,     \* local of resolveAddresses
  chunks,       \* local of resolveAddresses
  chunkIdx,     \* index of the chunk whose transport call is in flight
  fresh,        \* local of resolveAddresses: result of the last resolveViaRPC
  results,      \* local of resolveAddresses
  responses,    \* the sendResponse calls of each request: {names} and the call site
  rpcLog,       \* the transport calls of each request: chunk sent and start time
  rpcOutcome,   \* how each transport call of the running invocation settled
  rpcSlots,     \* the results the endpoint encoded in its reply
  damage,       \* what is wrong with the reply
  hexArg,       \* the argument of decodeAggregate3: json.result
  rvAddresses,  \* resolveViaRPC: the addresses argument
  decoded,      \* resolveViaRPC: how decodeAggregate3(json.result) ended
  rvResults,    \* resolveViaRPC: the results Map
  rvPc,         \* position in the tail of resolveViaRPC (lines 178-186)
  encAddresses, \* encodeMulticall: the addresses argument
  calldata,     \* resolveViaRPC: const calldata = encodeMulticall(addresses)
  encPc,        \* position around the encodeMulticall call (line 162)
  pkHref,       \* collectEthereumLinks: const href = anchor.href
  pkDisplay,    \* collectEthereumLinks: anchor.textContent.trim()
  pkAddresses,  \* collectEthereumLinks: hrefAddresses
  picked,       \* collectEthereumLinks: fullAddress
  pkPc,         \* position in the PRIMARY branch (content.js lines 256-262)
  localConf,    \* the keys of chrome.storage.local outside the cache
  clearPc,      \* position of the CLEAR_CACHE handler (lines 293-302)
  wnsKeys,      \* CLEAR_CACHE: const wnsKeys
  cleared,      \* the responses of the CLEAR_CACHE handler
  anchor,       \* replaceAnchor: the text nodes and the attribute of anchor
  raArgs,       \* replaceAnchor: fullAddress, nameMap, replaceEns, ignoreSet
  raPc,         \* position around the replaceAnchor call (content.js line 326)
  HREF_RULES,   \* content.js: let HREF_RULES
  ruleMatch,    \* collectEthereumLinks: const ruleMatch
  form,         \* options page: the values of the input fields
  areas,        \* chrome.storage.local and .sync: useSync flag, configuration
  configData,   \* save handler: const configData
  sentClear,    \* CLEAR_CACHE messages the options page has sent
  status,       \* options page: what statusEl shows
  savePc,       \* position of the save handler (lines 117-203)
  pickedAgain,  \* fullAddress of a later scan of the same anchor
  doc,          \* the anchors of the document: href, text nodes, attribute
  scans,        \* the processRoot calls: root, position, links
  pendingRoots, \* content.js: const pendingRoots
  debounceTimer, \* content.js: let debounceTimer (armed or not)
  observing,    \* observer.observe(document.body, ...) has been called
  writes        \* how often replaceAnchor has set the text of each anchor

vars ==
  <<now, lastRpcTime, stored, cache, pc, addresses, wakeAt, conf, cached,
    readNow, uncached, chunks, chunkIdx, fresh, results, responses, rpcLog,
    rpcOutcome, rpcSlots, damage, hexArg, rvAddresses, decoded, rvResults,
    rvPc, encAddresses, calldata, encPc, pkHref, pkDisplay, pkAddresses,
    picked, pkPc, localConf, clearPc, wnsKeys, cleared, anchor, raArgs, raPc,
    HREF_RULES, ruleMatch, form, areas, configData, sentClear, status, savePc,
    pickedAgain, doc, scans, pendingRoots, debounceTimer, observing, writes>>

\* The state of one resolveViaRPC call followed through the decoder.
codecVars == <<rpcSlots, damage, hexArg, rvAddresses, decoded, rvResults, rvPc>>

\* The state of one encodeMulticall call.
encVars == <<encAddresses, calldata, encPc>>

\* The state of one anchor of the content script.
pickVars == <<pkHref, pkDisplay, pkAddresses, picked, pkPc>>

\* The state of the CLEAR_CACHE handler.
storeVars == <<localConf, clearPc, wnsKeys, cleared>>

\* The state of one replaceAnchor call.
replVars == <<anchor, raArgs, raPc>>

\* The state of the pages: content script and options page.
\* The href rules of the content script and their result at one anchor.
ruleVars == <<HREF_RULES, ruleMatch>>

\* The state of the options page and of the storage areas it writes.
optVars == <<form, areas, configData, sentClear, status, savePc>>

\* The state of the document and of the scans of the content script.
domVars == <<doc, scans, pendingRoots, debounceTimer, observing, writes>>

scanVars == <<pickedAgain, domVars>>

pagesVars == <<replVars, ruleVars, optVars, scanVars>>

\* The state outside the RESOLVE handler and the functions it calls.
restVars == <<storeVars, pagesVars>>

\* The state of the functions followed on their own.
pureVars == <<codecVars, encVars, pickVars, restVars>>

workerVars ==
  <<now, lastRpcTime, stored, cache, pc, addresses, wakeAt, conf, cached,
    readNow, uncached, chunks, chunkIdx, fresh, results, responses, rpcLog,
    rpcOutcome>>

reqVars ==
  <<pc, addresses, wakeAt, conf, cached, readNow, uncached, chunks,
    chunkIdx, fresh, results, responses, rpcLog, rpcOutcome>>

\* ------------------------------------------------------- pure functions
\* A filter that lets every string through.
FilterValidAnyString(msg) ==
  LET list == IF msg.isArray THEN msg.addresses ELSE <<>>
      Keep(e) == e.typeof = "string"
      kept == SelectSeq(list, Keep)
  IN [i \in 1..Len(kept) |-> kept[i].value]

\* (Array.isArray(message.addresses) ? message.addresses : [])
\*   .filter(a => typeof a === 'string' && VALID_ADDR.test(a))   (lines 307-308)
FilterValid(msg) ==
  LET list == IF msg.isArray THEN msg.addresses ELSE <<>>
      Keep(e) == e.typeof = "string" /\ VALID_ADDR(e.value)
      kept == SelectSeq(list, Keep)
  IN [i \in 1..Len(kept) |-> kept[i].value]

\* A cache read loop that takes an entry with a null name for a miss.
RECURSIVE CacheReadLoopNegativeMiss(_, _, _, _, _, _, _)
CacheReadLoopNegativeMiss(addrs, cch, tnow, ttl, i, res, unc) ==
  IF i > Len(addrs) THEN <<res, unc>>
  ELSE
    LET addr == addrs[i]
        entry == MapGet(cch, cacheKey(addr))
    IN IF cacheKey(addr) \in DOMAIN cch /\ (tnow - entry.t) < ttl /\ Truthy(entry.n)
       THEN CacheReadLoopNegativeMiss(addrs, cch, tnow, ttl, i + 1,
                                      MapSet(res, toLowerCase(addr), entry.n), unc)
       ELSE CacheReadLoopNegativeMiss(addrs, cch, tnow, ttl, i + 1, res,
                                      Append(unc, addr))

\* A cache read loop that never looks at the age of an entry.
RECURSIVE CacheReadLoopNoTtl(_, _, _, _, _, _, _)
CacheReadLoopNoTtl(addrs, cch, tnow, ttl, i, res, unc) ==
  IF i > Len(addrs) THEN <<res, unc>>
  ELSE
    LET addr == addrs[i]
        entry == MapGet(cch, cacheKey(addr))
    IN IF cacheKey(addr) \in DOMAIN cch
       THEN IF Truthy(entry.n)
            THEN CacheReadLoopNoTtl(addrs, cch, tnow, ttl, i + 1,
                                    MapSet(res, toLowerCase(addr), entry.n), unc)
            ELSE CacheReadLoopNoTtl(addrs, cch, tnow, ttl, i + 1, res, unc)
       ELSE CacheReadLoopNoTtl(addrs, cch, tnow, ttl, i + 1, res, Append(unc, addr))

\* resolveAddresses, cache read loop (lines 225-233): returns the pair
\* <<results, uncached>> after the entries from position i on are examined.
RECURSIVE CacheReadLoop(_, _, _, _, _, _, _)
CacheReadLoop(addrs, cch, tnow, ttl, i, res, unc) ==
  IF i > Len(addrs) THEN <<res, unc>>
  ELSE
    LET addr == addrs[i]
        entry == MapGet(cch, cacheKey(addr))
    IN IF cacheKey(addr) \in DOMAIN cch /\ (tnow - entry.t) < ttl
       THEN IF Truthy(entry.n)
            THEN CacheReadLoop(addrs, cch, tnow, ttl, i + 1,
                               MapSet(res, toLowerCase(addr), entry.n), unc)
            ELSE CacheReadLoop(addrs, cch, tnow, ttl, i + 1, res, unc)
       ELSE CacheReadLoop(addrs, cch, tnow, ttl, i + 1, res, Append(unc, addr))

\* resolveAddresses, chunking loop (lines 242-245); i is the 0-based index.
RECURSIVE ChunkLoop(_, _, _, _)
ChunkLoop(unc, maxBatch, i, acc) ==
  IF i >= Len(unc) THEN acc
  ELSE
    LET hi == IF i + maxBatch < Len(unc) THEN i + maxBatch ELSE Len(unc)
    IN ChunkLoop(unc, maxBatch, i + maxBatch, Append(acc, SubSeq(unc, i + 1, hi)))

\* All misses in one call, whatever the batch size.
MakeChunksSingle(unc, maxBatch) == <<unc>>

MakeChunks(unc, maxBatch) == ChunkLoop(unc, maxBatch, 0, <<>>)

\* An attribution loop that gives every address the name of the slot after
\* its own.
RECURSIVE AttributeLoopShifted(_, _, _, _)
AttributeLoopShifted(addrs, names, i, res) ==
  IF i > Len(addrs) THEN res
  ELSE
    LET nm == IF i + 1 <= Len(names) THEN names[i + 1] ELSE Undefined
    IN IF Truthy(nm)
       THEN AttributeLoopShifted(addrs, names, i + 1,
                                 MapSet(res, toLowerCase(addrs[i]), nm))
       ELSE AttributeLoopShifted(addrs, names, i + 1, res)

\* resolveViaRPC, attribution loop (lines 182-184); names is the list
\* decodeAggregate3 returned.
RECURSIVE AttributeLoop(_, _, _, _)
AttributeLoop(addrs, names, i, res) ==
  IF i > Len(addrs) THEN res
  ELSE
    LET nm == IF i <= Len(names) THEN names[i] ELSE Undefined
    IN IF Truthy(nm)
       THEN AttributeLoop(addrs, names, i + 1, MapSet(res, toLowerCase(addrs[i]), nm))
       ELSE AttributeLoop(addrs, names, i + 1, res)

\* The ways a transport call for a chunk can settle.
Outcomes(chunk) ==
  {[kind |-> "fetchReject", names |-> <<>>],
   [kind |-> "jsonReject", names |-> <<>>],
   [kind |-> "noResult", names |-> <<>>]}
  \cup {[kind |-> "result", names |-> nl] : nl \in SeqsUpTo(NameOrNull, Len(chunk))}

\* Every way any transport call can settle.
AllOutcomes ==
  {[kind |-> "fetchReject", names |-> <<>>],
   [kind |-> "jsonReject", names |-> <<>>],
   [kind |-> "noResult", names |-> <<>>]}
  \cup {[kind |-> "result", names |-> nl] : nl \in SeqsUpTo(NameOrNull, MaxAddrs)}

Throws(o) == o.kind \in {"fetchReject", "jsonReject"}

\* resolveViaRPC (lines 160-187) for a transport call that settles as o.
resolveViaRPC(chunk, o) ==
  IF o.kind = "noResult" THEN EmptyMap
  ELSE AttributeLoop(chunk, o.names, 1, EmptyMap)

\* resolveAddresses, building toStore (lines 251-256) and storing it.
RECURSIVE ToStoreLoop(_, _, _, _, _)
ToStoreLoop(chunk, fr, tnow, i, store) ==
  IF i > Len(chunk) THEN store
  ELSE
    LET g == MapGet(fr, toLowerCase(chunk[i]))
        name == IF Truthy(g) THEN g ELSE Null
    IN ToStoreLoop(chunk, fr, tnow, i + 1,
                   MapSet(store, cacheKey(chunk[i]), [n |-> name, t |-> tnow]))

\* A cache write that is lost.
StorageSetDropped(store, toStore) == store

\* A cache write that keeps the entries the store already has.
StorageSetKeepOld(store, toStore) ==
  [k \in (DOMAIN store) \cup (DOMAIN toStore) |->
     IF k \in DOMAIN store THEN store[k] ELSE toStore[k]]

\* chrome.storage.local.set(toStore)   (line 257)
StorageSet(store, toStore) ==
  [k \in (DOMAIN store) \cup (DOMAIN toStore) |->
     IF k \in DOMAIN toStore THEN toStore[k] ELSE store[k]]

\* The fresh names replace the results instead of being added to them.
MergeFreshOnly(res, fr) == fr

\* for (const [addr, name] of fresh) results.set(addr, name)   (line 260)
MergeFresh(res, fr) ==
  [k \in (DOMAIN res) \cup (DOMAIN fr) |-> IF k \in DOMAIN fr THEN fr[k] ELSE res[k]]

\* ---------------------------------------------------------- ABI decoder
\* Hex chars per 32-byte ABI word (line 33).
W == 64

MAX_NAME_LENGTH == 64

\* A JS number is a natural number or NaN.  Numbers at or above NumCap are
\* kept as NumCap: they are only used as string positions, and every data
\* string is shorter than that.
NaN == 0 - 1

CapDigits == 5

NumCap == 16 ^ CapDigits

Sat(x) == IF x > NumCap THEN NumCap ELSE x

JsAdd(a, b) == IF a = NaN \/ b = NaN THEN NaN ELSE Sat(a + b)

JsMul(a, k) == IF a = NaN THEN NaN ELSE Sat(a * k)

\* !x for a number
Falsy(x) == x = NaN \/ x = 0

HexVal(c) ==
  CASE c = "0" -> 0 [] c = "1" -> 1 [] c = "2" -> 2 [] c = "3" -> 3
    [] c = "4" -> 4 [] c = "5" -> 5 [] c = "6" -> 6 [] c = "7" -> 7
    [] c = "8" -> 8 [] c = "9" -> 9
    [] c \in {"a", "A"} -> 10 [] c \in {"b", "B"} -> 11 [] c \in {"c", "C"} -> 12
    [] c \in {"d", "D"} -> 13 [] c \in {"e", "E"} -> 14 [] c \in {"f", "F"} -> 15
    [] OTHER -> NaN

\* String.prototype.slice(a, b) for positions that are not negative: NaN
\* counts as 0 and positions past the end as the end.
Slice(str, a, b) ==
  LET lo == IF a = NaN THEN 0 ELSE IF a > Len(str) THEN Len(str) ELSE a
      hi == IF b = NaN THEN 0 ELSE IF b > Len(str) THEN Len(str) ELSE b
  IN IF lo >= hi THEN <<>> ELSE SubSeq(str, lo + 1, hi)

\* The number of leading hexadecimal digits of str.
LeadingDigits(str) ==
  LET stops == {i \in 1..(Len(str) + 1) : i > Len(str) \/ HexVal(str[i]) = NaN}
  IN (CHOOSE i \in stops : \A j \in stops : i <= j) - 1

\* The number of hexadecimal digits of the leading number of str, leading
\* zeros not counted.
DigitCount(str) ==
  LET k == LeadingDigits(str)
      nonzero == {i \in 1..k : str[i] # "0"}
  IN IF nonzero = {} THEN 0
     ELSE k + 1 - (CHOOSE i \in nonzero : \A j \in nonzero : i <= j)

\* parseInt(str, 16) for a string without sign, blanks or 0x marker: the
\* value of the leading hexadecimal digits, NaN when there is none.
RECURSIVE DigitsValue(_, _, _)
\* The value of the digits of str from the j-th before position k down.
DigitsValue(str, k, j) ==
  IF j >= k \/ j >= CapDigits THEN 0
  ELSE HexVal(str[k - j]) + 16 * DigitsValue(str, k, j + 1)

parseInt16(str) ==
  LET k == LeadingDigits(str)
  IN IF k = 0 THEN NaN
     ELSE IF DigitCount(str) > CapDigits THEN NumCap
     ELSE DigitsValue(str, k, 0)

\* hexToBytes (lines 84-90): a byte that does not parse is stored as 0.
hexToBytes(hex) ==
  [i \in 1..(Len(hex) \div 2) |->
     LET b == parseInt16(Slice(hex, 2 * (i - 1), 2 * i))
     IN IF b = NaN THEN 0 ELSE b]

Invalid == <<0 - 1>>

IsContByte(b) == b >= 128 /\ b <= 191

IsCont(bytes, i) == i <= Len(bytes) /\ IsContByte(bytes[i])

\* The length of the UTF-8 sequence a byte starts, 0 for a byte that starts
\* none.
SeqLen(b) ==
  IF b < 128 THEN 1
  ELSE IF b >= 194 /\ b <= 223 THEN 2
  ELSE IF b >= 224 /\ b <= 239 THEN 3
  ELSE IF b >= 240 /\ b <= 244 THEN 4
  ELSE 0

\* Byte i starts a well-formed sequence.
GoodLead(bytes, i) ==
  LET b == bytes[i]
  IN /\ SeqLen(b) >= 1
     /\ \A k \in 1..(SeqLen(b) - 1) : IsCont(bytes, i + k)
     /\ (b = 224 => bytes[i + 1] >= 160)
     /\ (b = 237 => bytes[i + 1] <= 159)
     /\ (b = 240 => bytes[i + 1] >= 144)
     /\ (b = 244 => bytes[i + 1] <= 143)

\* Continuation byte i belongs to the sequence of a byte before it.
Covered(bytes, i) ==
  \E j \in 1..(i - 1) :
    /\ ~IsContByte(bytes[j])
    /\ SeqLen(bytes[j]) > i - j
    /\ \A k \in (j + 1)..i : IsContByte(bytes[k])

\* The code point of the sequence byte i starts.
CodePoint(bytes, i) ==
  LET b == bytes[i]
      c(k) == bytes[i + k] - 128
  IN CASE SeqLen(b) = 1 -> b
       [] SeqLen(b) = 2 -> (b - 192) * 64 + c(1)
       [] SeqLen(b) = 3 -> (b - 224) * 4096 + c(1) * 64 + c(2)
       [] SeqLen(b) = 4 -> (b - 240) * 262144 + c(1) * 4096 + c(2) * 64 + c(3)

\* TextDecoder('utf-8', {fatal: true}).decode(bytes) before the byte order
\* mark is dropped: the UTF-16 code units, or Invalid where the decoder
\* throws.  A code point above U+FFFF gives two units.
Utf8Units(bytes) ==
  LET IsLead(i) == ~IsContByte(bytes[i])
      leads == SelectSeq([i \in 1..Len(bytes) |-> i], IsLead)
      Units(k) == IF SeqLen(bytes[leads[k]]) = 4 THEN 2 ELSE 1
      Before(k) == (k - 1) + Cardinality({j \in 1..(k - 1) : Units(j) = 2})
      total == Before(Len(leads) + 1)
      wellFormed ==
        \A i \in 1..Len(bytes) :
          IF IsContByte(bytes[i]) THEN Covered(bytes, i) ELSE GoodLead(bytes, i)
  IN IF ~wellFormed THEN Invalid
     ELSE [m \in 1..total |->
             LET k == CHOOSE k \in 1..Len(leads) : Before(k) < m /\ m <= Before(k) + Units(k)
                 cp == CodePoint(bytes, leads[k])
             IN IF Units(k) = 1 THEN cp
                ELSE IF m = Before(k) + 1 THEN 55296 + ((cp - 65536) \div 1024)
                ELSE 56320 + ((cp - 65536) % 1024)]

\* The decoder drops a leading byte order mark.
textDecoderDecode(bytes) ==
  LET units == Utf8Units(bytes)
  IN IF units # Invalid /\ units # <<>> /\ units[1] = 65279 THEN Tail(units)
     ELSE units

\* The denylist of sanitizeName (line 99).
Denied(u) ==
  \/ u >= 0 /\ u <= 31
  \/ u >= 127 /\ u <= 159
  \/ u >= 8203 /\ u <= 8207
  \/ u >= 8234 /\ u <= 8238
  \/ u >= 8288 /\ u <= 8297
  \/ u = 65279

\* A decoded entry: null, or a name given by its UTF-16 code units.
JsNull == [null |-> TRUE, text |-> <<>>]

JsStr(t) == [null |-> FALSE, text |-> t]

\* A sanitizer that truncates but strips nothing.
sanitizeNameNoStrip(name) ==
  IF name = <<>> THEN JsNull
  ELSE IF Len(name) > MAX_NAME_LENGTH THEN JsStr(SubSeq(name, 1, MAX_NAME_LENGTH))
  ELSE JsStr(name)

\* sanitizeName (lines 96-102)
sanitizeName(name) ==
  LET Kept(u) == ~Denied(u)
      cleaned == SelectSeq(name, Kept)
  IN IF cleaned = <<>> THEN JsNull
     ELSE IF Len(cleaned) > MAX_NAME_LENGTH
     THEN JsStr(SubSeq(cleaned, 1, MAX_NAME_LENGTH))
     ELSE JsStr(cleaned)

\* decodeAggregate3, body of the loop over the slots (lines 124-148), for
\* the 0-based slot index i.
DecodeSlot(data, i) ==
  LET arrayBase == 2 * W
      uint(pos) == parseInt16(Slice(data, pos, JsAdd(pos, W)))
      offset == JsMul(uint(arrayBase + i * W), 2)
      base == JsAdd(arrayBase, offset)
      bytesOffset == JsMul(uint(JsAdd(base, W)), 2)
      bytesBase == JsAdd(base, bytesOffset)
      bytesLen == uint(bytesBase)
      rdBase == JsAdd(bytesBase, W)
      strLen == uint(JsAdd(rdBase, W))
      strHex == Slice(data, JsAdd(rdBase, 2 * W),
                      JsAdd(JsAdd(rdBase, 2 * W), JsMul(strLen, 2)))
      raw == textDecoderDecode(hexToBytes(strHex))
  IN IF uint(base) # 1 THEN JsNull
     ELSE IF Falsy(bytesLen) THEN JsNull
     ELSE IF Falsy(strLen) THEN JsNull
     ELSE IF raw = Invalid THEN JsNull
     ELSE sanitizeName(raw)

\* How a call of decodeAggregate3 ends.
Returned(names) == [status |-> "returned", names |-> names]

Thrown == [status |-> "thrown", names |-> <<>>]

\* An array holds fewer than 2^32 elements: a push beyond that throws.
MaxArrayDigits == 8

\* decodeAggregate3 (lines 108-152) for a value hex of json.result, given by
\* its typeof and, for a string, its characters; a value that is not a string
\* is undefined or a truthy value without a startsWith method.
decodeAggregate3(hex) ==
  IF hex.typeof = "undefined" \/ (hex.typeof = "string" /\ hex.value = <<>>)
  THEN Returned(<<>>)
  ELSE IF hex.typeof # "string" THEN Thrown
  ELSE IF hex.value = <<"0", "x">> THEN Returned(<<>>)
  ELSE
    LET data == IF Len(hex.value) >= 2 /\ SubSeq(hex.value, 1, 2) = <<"0", "x">>
                THEN Slice(hex.value, 2, Len(hex.value))
                ELSE hex.value
        nword == Slice(data, W, 2 * W)
        n == parseInt16(nword)
    IN IF Falsy(n) THEN Returned(<<>>)
       ELSE IF DigitCount(nword) > MaxArrayDigits THEN Thrown
       ELSE Returned([k \in 1..n |-> DecodeSlot(data, k - 1)])

\* ------------------------------------------------- replies of the endpoint
MaxSlots == 2

HexChars == <<"0", "1", "2", "3", "4", "5", "6", "7", "8", "9",
              "a", "b", "c", "d", "e", "f">>

\* The number v < NumCap as width hexadecimal digits.
ToHex(v, width) ==
  [i \in 1..width |->
     IF width - i >= CapDigits THEN "0"
     ELSE HexChars[((v \div (16 ^ (width - i))) % 16) + 1]]

HexWord(v) == ToHex(v, W)

BytesHex(bytes) ==
  [i \in 1..(2 * Len(bytes)) |-> ToHex(bytes[(i + 1) \div 2], 2)[2 - (i % 2)]]

Zeros(k) == [i \in 1..k |-> "0"]

\* bytes as hex, right-padded to whole 32-byte words
PaddedHex(bytes) ==
  BytesHex(bytes) \o Zeros((W - ((2 * Len(bytes)) % W)) % W)

LongLen == MAX_NAME_LENGTH + 6

\* The result slots an endpoint may return: the success flag, whether the
\* return bytes hold an encoded string, the bytes of the string and the text
\* they stand for.
SlotN1 == [success |-> 1, form |-> "string", bytes |-> <<110, 49>>, text |-> <<110, 49>>]
SlotN2 == [success |-> 1, form |-> "string", bytes |-> <<110, 50>>, text |-> <<110, 50>>]
SlotFailed == [success |-> 0, form |-> "empty", bytes |-> <<>>, text |-> <<>>]
SlotFlagTwo == [success |-> 2, form |-> "string", bytes |-> <<110, 49>>, text |-> <<110, 49>>]
SlotNoBytes == [success |-> 1, form |-> "empty", bytes |-> <<>>, text |-> <<>>]
SlotEmptyString == [success |-> 1, form |-> "string", bytes |-> <<>>, text |-> <<>>]
SlotBadUtf8 == [success |-> 1, form |-> "string", bytes |-> <<110, 255>>, text |-> <<>>]
SlotZeroWidth ==
  [success |-> 1, form |-> "string", bytes |-> <<110, 226, 128, 139, 49>>,
   text |-> <<110, 8203, 49>>]
SlotControlOnly ==
  [success |-> 1, form |-> "string", bytes |-> <<7, 226, 128, 174>>,
   text |-> <<7, 8238>>]
SlotAstral ==
  [success |-> 1, form |-> "string", bytes |-> <<240, 159, 152, 128>>,
   text |-> <<55357, 56832>>]
SlotLong ==
  [success |-> 1, form |-> "string", bytes |-> [i \in 1..LongLen |-> 110],
   text |-> [i \in 1..LongLen |-> 110]]

SlotKinds ==
  {SlotN1, SlotN2, SlotFailed, SlotFlagTwo, SlotNoBytes, SlotEmptyString,
   SlotBadUtf8, SlotZeroWidth, SlotControlOnly, SlotAstral, SlotLong}

\* abi.encode of one Result tuple (bool success, bytes returnData), where
\* returnData is abi.encode(string) or empty.
EncodeTuple(slot) ==
  LET returnData ==
        IF slot.form = "empty" THEN <<>>
        ELSE HexWord(32) \o HexWord(Len(slot.bytes)) \o PaddedHex(slot.bytes)
  IN HexWord(slot.success) \o HexWord(64) \o HexWord(Len(returnData) \div 2)
       \o returnData

RECURSIVE EncodeTuples(_, _, _, _)
\* The offset words and the tuples of the slots from position i on.
EncodeTuples(slots, i, offset, acc) ==
  IF i > Len(slots) THEN acc
  ELSE
    LET t == EncodeTuple(slots[i])
    IN EncodeTuples(slots, i + 1, offset + (Len(t) \div 2),
                    [offsets |-> acc.offsets \o HexWord(offset),
                     tuples |-> acc.tuples \o t])

\* The eth_call return value of aggregate3 for the slots, without 0x.
EncodeResult(slots) ==
  LET e == EncodeTuples(slots, 1, 32 * Len(slots), [offsets |-> <<>>, tuples |-> <<>>])
  IN HexWord(32) \o HexWord(Len(slots)) \o e.offsets \o e.tuples

\* What can be wrong with a reply: nothing, no 0x marker, a result that is
\* no string, no result, an empty string, a bare 0x, a first offset word
\* that points past the data, a length word of 2^32 before data that ends
\* there, and cut hex digits missing at the end.
CutChars == {W - 4, W - 3, W - 2, W, W + 2}

Damages ==
  {[kind |-> k, cut |-> 0] :
     k \in {"none", "no0x", "notString", "missing", "empty", "only0x",
            "offsetOut", "giantLength"}}
  \cup {[kind |-> "truncated", cut |-> c] : c \in CutChars}

Giant == Zeros(W - 9) \o <<"1">> \o Zeros(8)

\* The value of json.result for the slots and the damage.
Reply(slots, dmg) ==
  LET data == EncodeResult(slots)
      Hex(str) == [typeof |-> "string", value |-> <<"0", "x">> \o str]
  IN CASE dmg.kind = "none" -> Hex(data)
       [] dmg.kind = "no0x" -> [typeof |-> "string", value |-> data]
       [] dmg.kind = "notString" -> [typeof |-> "number", value |-> <<>>]
       [] dmg.kind = "missing" -> [typeof |-> "undefined", value |-> <<>>]
       [] dmg.kind = "empty" -> [typeof |-> "string", value |-> <<>>]
       [] dmg.kind = "only0x" -> Hex(<<>>)
       [] dmg.kind = "offsetOut" ->
            Hex(Slice(data, 0, 2 * W) \o HexWord(NumCap - 1) \o Slice(data, 3 * W, Len(data)))
       [] dmg.kind = "giantLength" -> Hex(HexWord(32) \o Giant)
       [] dmg.kind = "truncated" -> Hex(Slice(data, 0, Len(data) - dmg.cut))

\* ---------------------------------------------------------- ABI encoder
WNS_CONTRACT ==
  <<"0", "x", "0", "0", "0", "0", "0", "0", "0", "0", "0", "0",
    "6", "9", "6", "7", "6", "0", "E", "1", "5", "f",
    "2", "6", "5", "e", "8", "2", "8", "D", "B", "6",
    "4", "4", "A", "0", "c", "2", "4", "2", "E", "B">>

REVERSE_RESOLVE_SELECTOR == <<"0", "x", "9", "a", "f", "8", "b", "7", "a", "a">>

AGGREGATE3_SELECTOR == <<"0", "x", "8", "2", "a", "d", "5", "6", "c", "b">>

ELEMENT_WORDS == 6

\* hex.padStart(W, '0')   (lines 36-38)
pad32(hex) == IF Len(hex) >= W THEN hex ELSE Zeros(W - Len(hex)) \o hex

\* str.padEnd(W, '0')   (line 74)
padEnd(str) == IF Len(str) >= W THEN str ELSE str \o Zeros(W - Len(str))

\* Number.prototype.toString(16) for a natural number below NumCap
toString16(v) ==
  LET k == CHOOSE d \in 1..CapDigits :
             /\ v < 16 ^ d
             /\ \A e \in 1..CapDigits : v < 16 ^ e => d <= e
  IN ToHex(v, k)

\* str.replace('0x', ''): the first occurrence of 0x is removed.
Replace0x(str) ==
  LET hits == {i \in 1..(Len(str) - 1) : str[i] = "0" /\ str[i + 1] = "x"}
  IN IF hits = {} THEN str
     ELSE LET i == CHOOSE h \in hits : \A g \in hits : h <= g
          IN SubSeq(str, 1, i - 1) \o SubSeq(str, i + 2, Len(str))

\* encodeReverseResolve (lines 41-44)
encodeReverseResolve(address) ==
  LET addr == Replace0x(toLowerCase(address))
  IN REVERSE_RESOLVE_SELECTOR \o pad32(addr)

\* The offset word of element i, without the N offset words of the head.
OffsetWordNoHead(n, i) == pad32(toString16(i * ELEMENT_WORDS * 32))

\* The offset word of element i (line 62).
OffsetWord(n, i) == pad32(toString16(n * 32 + i * ELEMENT_WORDS * 32))

\* The words pushed for one address (lines 68-74).
ElementWords(addr) ==
  LET cd == Slice(encodeReverseResolve(addr), 2, NumCap)
      wnsTarget == Replace0x(toLowerCase(WNS_CONTRACT))
  IN << pad32(wnsTarget),
        pad32(<<"1">>),
        pad32(<<"6", "0">>),
        pad32(<<"2", "4">>),
        Slice(cd, 0, W),
        padEnd(Slice(cd, W, NumCap)) >>

RECURSIVE Join(_, _, _)
\* words.slice(lo - 1, hi).join('')
Join(words, lo, hi) ==
  IF lo > hi THEN <<>>
  ELSE IF lo = hi THEN words[lo]
  ELSE LET mid == (lo + hi) \div 2
       IN Join(words, lo, mid) \o Join(words, mid + 1, hi)

\* encodeMulticall (lines 49-78)
encodeMulticall(addrs) ==
  LET n == Len(addrs)
      head == << pad32(<<"2", "0">>), pad32(toString16(n)) >>
      offsets == [k \in 1..n |-> OffsetWord(n, k - 1)]
      elements == [k \in 1..(ELEMENT_WORDS * n) |->
                     ElementWords(addrs[((k - 1) \div ELEMENT_WORDS) + 1])
                                 [((k - 1) % ELEMENT_WORDS) + 1]]
      words == head \o offsets \o elements
  IN AGGREGATE3_SELECTOR \o Join(words, 1, Len(words))

\* The address lists encodeMulticall is called with: chunks of addresses that
\* passed VALID_ADDR, of up to MaxEncLen addresses, and two of LongBatch.
MaxEncLen == 3

LongBatch == 17

UpperHexChars == <<"0", "1", "2", "3", "4", "5", "6", "7", "8", "9",
                   "A", "B", "C", "D", "E", "F">>

\* An address whose digits differ from place to place, in both cases.
AddrMixed ==
  <<"0", "x">> \o [i \in 1..HexLen |->
                     IF i % 2 = 1 THEN HexChars[(i % 16) + 1]
                     ELSE UpperHexChars[((7 * i) % 16) + 1]]

AddrZero == MkAddr("0", HexLen)

EncAddrs == {AddrUp, AddrB, AddrMixed, AddrZero}

EncInputs ==
  (SeqsUpTo(EncAddrs, MaxEncLen) \ {<<>>})
    \cup {[i \in 1..LongBatch |-> IF i % 2 = 1 THEN AddrMixed ELSE AddrB],
          [i \in 1..LongBatch |-> AddrUp]}

\* ------------------------------------------- content script: strings
\* The characters \w of a regular expression.
WordChars ==
  HexDigits \cup
  {"g", "h", "i", "j", "k", "l", "m", "n", "o", "p", "q", "r", "s", "t",
   "u", "v", "w", "x", "y", "z", "_",
   "G", "H", "I", "J", "K", "L", "M", "N", "O", "P", "Q", "R", "S", "T",
   "U", "V", "W", "X", "Y", "Z"}

\* The character U+2026 HORIZONTAL ELLIPSIS, one UTF-16 code unit.
Ellipsis == "hellip"

\* The elements of a finite set of numbers in increasing order.
SortedSeq(S) ==
  [i \in 1..Cardinality(S) |->
     CHOOSE p \in S : Cardinality({q \in S : q < p}) = i - 1]

\* String.prototype.indexOf: the first position (from 0) of sub, or -1.
IndexOf(str, sub) ==
  LET hits == {i \in 0..(Len(str) - Len(sub)) :
                 SubSeq(str, i + 1, i + Len(sub)) = sub}
  IN IF hits = {} THEN 0 - 1 ELSE CHOOSE i \in hits : \A j \in hits : i <= j

Includes(str, sub) == IndexOf(str, sub) # 0 - 1

StartsWith(str, sub) ==
  Len(sub) <= Len(str) /\ SubSeq(str, 1, Len(sub)) = sub

EndsWith(str, sub) ==
  Len(sub) <= Len(str) /\ SubSeq(str, Len(str) - Len(sub) + 1, Len(str)) = sub

\* The first position (from 1) at or after from of a character of set, or
\* Len(str) + 1.
FirstOf(str, set, from) ==
  LET hits == {i \in from..Len(str) : str[i] \in set}
  IN IF hits = {} THEN Len(str) + 1
     ELSE CHOOSE i \in hits : \A j \in hits : i <= j

\* str.split(sep) for a one-character separator.
Split(str, sep) ==
  LET cuts == SortedSeq({i \in 1..Len(str) : str[i] = sep})
      n == Len(cuts)
  IN [k \in 1..(n + 1) |->
        SubSeq(str,
               IF k = 1 THEN 1 ELSE cuts[k - 1] + 1,
               IF k = n + 1 THEN Len(str) ELSE cuts[k] - 1)]

\* The length of the run of characters of set that starts at position i.
RunLength(str, set, i) ==
  LET stops == {j \in i..(Len(str) + 1) : j > Len(str) \/ str[j] \notin set}
  IN (CHOOSE j \in stops : \A k \in stops : j <= k) - i

\* \b between position i - 1 and position i (from 1)
WordBoundary(str, i) ==
  LET before == i > 1 /\ i - 1 <= Len(str) /\ str[i - 1] \in WordChars
      after == i >= 1 /\ i <= Len(str) /\ str[i] \in WordChars
  IN before # after

\* /^0x[0-9a-fA-F]{40}$/   (content.js line 22)
VALID_ETH_RE(str) ==
  /\ Len(str) = 2 + HexLen
  /\ str[1] = "0"
  /\ str[2] = "x"
  /\ \A i \in 3..Len(str) : str[i] \in HexDigits

\* /\b0x[0-9a-fA-F]{40}\b/g at position p (from 1)   (content.js line 16)
EthReAt(str, p) ==
  /\ p + 1 + HexLen <= Len(str)
  /\ WordBoundary(str, p)
  /\ str[p] = "0"
  /\ str[p + 1] = "x"
  /\ \A i \in (p + 2)..(p + 1 + HexLen) : str[i] \in HexDigits
  /\ WordBoundary(str, p + 2 + HexLen)

\* allAddressesInHref (content.js lines 108-115).  Every match is a run of
\* word characters between two boundaries, so no two matches overlap and the
\* global search finds them all, from left to right.
allAddressesInHref(href) ==
  LET at == SortedSeq({p \in 1..Len(href) : EthReAt(href, p)})
  IN [k \in 1..Len(at) |-> toLowerCase(SubSeq(href, at[k], at[k] + 1 + HexLen))]

NoMatch == [matched |-> FALSE, prefix |-> <<>>, suffix |-> <<>>]

\* The least element of a finite set of numbers that is not empty.
Least(S) == CHOOSE i \in S : \A j \in S : i <= j

\* The match of DEFAULT_ABBR_RE that starts at position p, given the lengths
\* h1, s1, h2 of the runs of hex digits, separators and hex digits after 0x.
AbbrGroups(str, p, h1, s1, h2) ==
  IF /\ p + 1 <= Len(str)
     /\ WordBoundary(str, p)
     /\ str[p] = "0"
     /\ str[p + 1] = "x"
     /\ h1 >= 4
     /\ s1 \in {2, 3}
     /\ h2 >= 4
     /\ WordBoundary(str, p + 2 + h1 + s1 + h2)
  THEN [matched |-> TRUE,
        prefix |-> SubSeq(str, p + 2, p + 1 + h1),
        suffix |-> SubSeq(str, p + 2 + h1 + s1, p + 1 + h1 + s1 + h2)]
  ELSE NoMatch

AbbrAfterSeparator(str, p, h1, s1) ==
  AbbrGroups(str, p, h1, s1, RunLength(str, HexDigits, p + 2 + h1 + s1))

AbbrAfterPrefix(str, p, h1) ==
  AbbrAfterSeparator(str, p, h1, RunLength(str, {Ellipsis, "."}, p + 2 + h1))

\* /\b0x([0-9a-fA-F]{4,})[…\.]{2,3}([0-9a-fA-F]{4,})\b/ at position p
\* (content.js line 19).  A greedy group followed by a character outside its
\* class can only match the whole run.
AbbrReAt(str, p) == AbbrAfterPrefix(str, p, RunLength(str, HexDigits, p + 2))

LeftmostAbbr(str, hits) ==
  IF hits = {} THEN NoMatch ELSE AbbrReAt(str, Least(hits))

\* ABBR_RE.exec(displayText): the leftmost match and its two groups.
AbbrReExec(str) ==
  LeftmostAbbr(str, {p \in 1..Len(str) : AbbrReAt(str, p).matched})

\* Nothing was found: null, or the url that stays undefined.
NoAddress == <<"null">>

\* The first address of the list at one of the positions, or null.
FirstAt(addrs, positions) ==
  IF positions = {} THEN NoAddress ELSE addrs[Least(positions)]

\* The loop of matchAbbrToAddresses for the match m (content.js lines 124-131).
MatchLoop(m, addrs) ==
  IF ~m.matched THEN NoAddress
  ELSE FirstAt(addrs,
               {i \in 1..Len(addrs) :
                  /\ StartsWith(SubSeq(addrs[i], 3, Len(addrs[i])), toLowerCase(m.prefix))
                  /\ EndsWith(SubSeq(addrs[i], 3, Len(addrs[i])), toLowerCase(m.suffix))})

\* matchAbbrToAddresses (content.js lines 122-132)
matchAbbrToAddresses(displayText, addrs) ==
  MatchLoop(AbbrReExec(displayText), addrs)

\* ------------------------------------------------- content script: URLs
HttpsScheme == <<"h", "t", "t", "p", "s", ":", "/", "/">>

NotAUrl == [ok |-> FALSE, pathname |-> <<>>, search |-> <<>>, hash |-> <<>>]

\* new URL(href) for an href without a base (content.js line 170), for the
\* hrefs of this model: https, a host without userinfo or port, no character
\* that is escaped.  A host with a bracket that is not an IPv6 literal, or an
\* href without a scheme, does not parse.
URL(href) ==
  LET rest == SubSeq(href, Len(HttpsScheme) + 1, Len(href))
      hostEnd == FirstOf(rest, {"/", "?", "#"}, 1)
      host == SubSeq(rest, 1, hostEnd - 1)
      pathEnd == FirstOf(rest, {"?", "#"}, hostEnd)
      searchEnd == FirstOf(rest, {"#"}, pathEnd)
      path == SubSeq(rest, hostEnd, pathEnd - 1)
      search == SubSeq(rest, pathEnd, searchEnd - 1)
      hash == SubSeq(rest, searchEnd, Len(rest))
  IN IF ~StartsWith(href, HttpsScheme) THEN NotAUrl
     ELSE IF host = <<>> \/ (\E i \in 1..Len(host) : host[i] \in {"[", "]", " "})
       THEN NotAUrl
     ELSE [ok |-> TRUE,
           pathname |-> IF path = <<>> THEN <<"/">> ELSE path,
           search |-> IF Len(search) <= 1 THEN <<>> ELSE search,
           hash |-> IF Len(hash) <= 1 THEN <<>> ELSE hash]

\* url.searchParams: the name and the value of each parameter, in order.
searchParams(url) ==
  LET body == SubSeq(url.search, 2, Len(url.search))
      parts == SelectSeq(Split(body, "&"), LAMBDA part : part # <<>>)
  IN [k \in 1..Len(parts) |->
        LET eq == FirstOf(parts[k], {"="}, 1)
        IN [key |-> SubSeq(parts[k], 1, eq - 1),
            val |-> SubSeq(parts[k], eq + 1, Len(parts[k]))]]

\* ----------------------------------------- content script: subject address
SegAddress == <<"/", "a", "d", "d", "r", "e", "s", "s", "/">>

SegHolder == <<"/", "h", "o", "l", "d", "e", "r", "/">>

SegToken == <<"/", "t", "o", "k", "e", "n", "/">>

SegContract == <<"/", "c", "o", "n", "t", "r", "a", "c", "t", "/">>

KeyA == <<"a">>

KeyHolder == <<"h", "o", "l", "d", "e", "r">>

KeyAddress == <<"a", "d", "d", "r", "e", "s", "s">>

KeyToken == <<"t", "o", "k", "e", "n">>

KeyContract == <<"c", "o", "n", "t", "r", "a", "c", "t">>

HolderEq == <<"h", "o", "l", "d", "e", "r", "=">>

AddressEq == <<"a", "d", "d", "r", "e", "s", "s", "=">>

\* The path signals (content.js lines 182-188).
PathScore(url, addr) ==
  LET pathLower == toLowerCase(url.pathname)
      addrIdx == IndexOf(pathLower, addr)
      before == SubSeq(pathLower, 1, addrIdx)
  IN IF addrIdx = 0 - 1 THEN 0
     ELSE (IF EndsWith(before, SegAddress) \/ EndsWith(before, SegHolder)
             THEN 10 ELSE 0)
          - (IF EndsWith(before, SegToken) \/ EndsWith(before, SegContract)
               THEN 5 ELSE 0)

RECURSIVE ParamScore(_, _, _)
\* The query parameter signals (content.js lines 191-195), from parameter i.
ParamScore(params, addr, i) ==
  IF i > Len(params) THEN 0
  ELSE LET key == toLowerCase(params[i].key)
           here == IF toLowerCase(params[i].val) # addr THEN 0
                   ELSE (IF key \in {KeyA, KeyHolder, KeyAddress} THEN 10 ELSE 0)
                        - (IF key \in {KeyToken, KeyContract} THEN 5 ELSE 0)
       IN here + ParamScore(params, addr, i + 1)

\* The hash signals (content.js lines 198-201).
HashScore(url, addr) ==
  LET hashStr == toLowerCase(url.hash)
  IN IF ~Includes(hashStr, addr) THEN 0
     ELSE (IF Includes(hashStr, HolderEq \o addr) THEN 10 ELSE 0)
          + (IF Includes(hashStr, AddressEq \o addr) THEN 10 ELSE 0)

\* The score the loop of lines 178-204 stores for addr.
Score(url, addr) ==
  PathScore(url, addr) + ParamScore(searchParams(url), addr, 1) + HashScore(url, addr)

RECURSIVE BestLoopLastMax(_, _, _, _)
\* The loop of lines 207-212 with >= in place of >.
BestLoopLastMax(url, addrs, i, best) ==
  IF i > Len(addrs) THEN best
  ELSE IF Score(url, addrs[i]) >= Score(url, best)
    THEN BestLoopLastMax(url, addrs, i + 1, addrs[i])
  ELSE BestLoopLastMax(url, addrs, i + 1, best)

RECURSIVE BestLoop(_, _, _, _)
\* The loop of lines 207-212, from addresses[i - 1], with best so far.
BestLoop(url, addrs, i, best) ==
  IF i > Len(addrs) THEN best
  ELSE IF Score(url, addrs[i]) > Score(url, best)
    THEN BestLoop(url, addrs, i + 1, addrs[i])
  ELSE BestLoop(url, addrs, i + 1, best)

\* Tier 1 without the display text.
Tier1Blind(displayText, addrs) == NoAddress

\* a, or b when a is null
OrElse(a, b) == IF a # NoAddress THEN a ELSE b

\* The exact display match (content.js lines 158-166).
ExactDisplay(displayText, displayLower, addrs) ==
  IF VALID_ETH_RE(displayText)
    THEN FirstAt(addrs, {i \in 1..Len(addrs) : addrs[i] = displayLower})
  ELSE NoAddress

\* Tier 1 (content.js lines 151-166)
Tier1(displayText, addrs) ==
  OrElse(matchAbbrToAddresses(displayText, addrs),
         ExactDisplay(displayText, toLowerCase(displayText), addrs))

\* The end of tier 2 (content.js lines 213-216).
IfScored(url, best) == IF Score(url, best) # 0 THEN best ELSE NoAddress

\* Tier 2 for the parsed url (content.js lines 172-217)
ScoreUrl(url, addrs) ==
  IF ~url.ok THEN NoAddress
  ELSE IfScored(url, BestLoop(url, addrs, 1, addrs[1]))

\* Tier 2 (content.js lines 168-217)
Tier2(href, addrs) == ScoreUrl(URL(href), addrs)

\* Tier 3 returning the first address.
Tier3First(addrs) == addrs[1]

\* Tier 3 (content.js lines 219-221)
Tier3(addrs) == addrs[Len(addrs)]

\* A pickSubjectAddress that takes a display text that is a full address
\* without looking for it among the candidates.
pickSubjectAddressTrustDisplay(href, addrs, displayText) ==
  IF VALID_ETH_RE(displayText) THEN toLowerCase(displayText)
  ELSE IF Len(addrs) = 1 THEN addrs[1]
  ELSE OrElse(Tier1(displayText, addrs),
              OrElse(Tier2(href, addrs), Tier3(addrs)))

\* pickSubjectAddress (content.js lines 148-222)
pickSubjectAddress(href, addrs, displayText) ==
  IF Len(addrs) = 1 THEN addrs[1]
  ELSE OrElse(Tier1(displayText, addrs),
              OrElse(Tier2(href, addrs), Tier3(addrs)))

\* ----------------------------------------------------------------- Init
Configs ==
  [cacheEnabled : BOOLEAN,
   cacheTtlMs : {TtlTicks},
   maxBatchSize : 1..MaxBatch,
   rpcCooldownMs : {CooldownTicks}]

ConcConfigs ==
  [cacheEnabled : BOOLEAN,
   cacheTtlMs : {TtlTicks},
   maxBatchSize : {1},
   rpcCooldownMs : {CooldownTicks}]

NoConf == [cacheEnabled |-> FALSE, cacheTtlMs |-> 0, maxBatch |-> 0]

Pending == [status |-> "pending", names |-> <<>>]

\* No resolveViaRPC call is followed through the decoder.
CodecOff ==
  /\ rpcSlots = <<>>
  /\ damage = "none"
  /\ hexArg = [typeof |-> "undefined", value |-> <<>>]
  /\ rvAddresses = <<>>
  /\ decoded = Pending
  /\ rvResults = EmptyMap
  /\ rvPc = "off"

WorkerInitWith(configs, caches) ==
  /\ now = StartTime
  /\ lastRpcTime = 0
  /\ stored \in configs
  /\ cache \in caches
  /\ pc = [r \in Req |-> "idle"]
  /\ addresses = [r \in Req |-> <<>>]
  /\ wakeAt = [r \in Req |-> 0]
  /\ conf = [r \in Req |-> NoConf]
  /\ cached = [r \in Req |-> EmptyMap]
  /\ readNow = [r \in Req |-> 0]
  /\ uncached = [r \in Req |-> <<>>]
  /\ chunks = [r \in Req |-> <<>>]
  /\ chunkIdx = [r \in Req |-> 0]
  /\ fresh = [r \in Req |-> EmptyMap]
  /\ results = [r \in Req |-> EmptyMap]
  /\ responses = [r \in Req |-> <<>>]
  /\ rpcLog = [r \in Req |-> <<>>]
  /\ rpcOutcome = [r \in Req |-> <<>>]

WorkerInit(configs) == WorkerInitWith(configs, {EmptyMap})

\* No encodeMulticall call is followed.
EncoderOff ==
  /\ encAddresses = <<>>
  /\ calldata = <<>>
  /\ encPc = "off"

\* No anchor is followed.
PickerOff ==
  /\ pkHref = <<>>
  /\ pkDisplay = <<>>
  /\ pkAddresses = <<>>
  /\ picked = <<>>
  /\ pkPc = "off"

\* No CLEAR_CACHE message is followed.
StoreOff ==
  /\ localConf = EmptyMap
  /\ clearPc = "off"
  /\ wnsKeys = {}
  /\ cleared = <<>>

\* No replaceAnchor call is followed.
ReplaceOff ==
  /\ anchor = <<>>
  /\ raArgs = <<>>
  /\ raPc = "off"

\* No href rule is configured.
RulesOff ==
  /\ HREF_RULES = <<>>
  /\ ruleMatch = <<>>

\* The options page is not open.
OptionsOff ==
  /\ form = <<>>
  /\ areas = <<>>
  /\ configData = <<>>
  /\ sentClear = 0
  /\ status = ""
  /\ savePc = "off"

\* No document is followed.
DomOff ==
  /\ doc = <<>>
  /\ scans = <<>>
  /\ pendingRoots = <<>>
  /\ debounceTimer = FALSE
  /\ observing = FALSE
  /\ writes = <<>>

ScanOff == pickedAgain = <<>> /\ DomOff

PagesOff == ReplaceOff /\ RulesOff /\ OptionsOff /\ ScanOff

RestOff == StoreOff /\ PagesOff

InitWith(configs) ==
  WorkerInit(configs) /\ CodecOff /\ EncoderOff /\ PickerOff /\ RestOff

Init == InitWith(ConcConfigs)

InitSerial == InitWith(Configs)

\* -------------------------------------------------------------- actions
\* Date.now() advances.  The clock stops at MaxTime unless a timer is pending.
Tick ==
  /\ \/ now < MaxTime
     \/ \E r \in Req : pc[r] = "setTimeout" /\ wakeAt[r] > now
  /\ now' = now + 1
  /\ UNCHANGED <<lastRpcTime, stored, cache, reqVars>>
  /\ UNCHANGED pureVars

\* onMessage, RESOLVE branch (lines 304-323).  Requests arrive in order.
OnResolve(r, msg) ==
  /\ pc[r] = "idle"
  /\ \A q \in Req : q < r => pc[q] # "idle"
  /\ LET valid == FilterValid(msg)
     IN /\ addresses' = [addresses EXCEPT ![r] = valid]
        /\ IF Len(valid) = 0
           THEN /\ responses' = [responses EXCEPT ![r] =
                                   Append(@, [names |-> EmptyMap, site |-> "sync"])]
                /\ pc' = [pc EXCEPT ![r] = "done"]
           ELSE /\ pc' = [pc EXCEPT ![r] = "waitForCooldown"]
                /\ UNCHANGED responses
  /\ UNCHANGED <<now, lastRpcTime, stored, cache, wakeAt, conf, cached, readNow,
                 uncached, chunks, chunkIdx, fresh, results, rpcLog, rpcOutcome>>
  /\ UNCHANGED pureVars

\* waitForCooldown after its getConfig has settled (lines 274-278); when no
\* wait is needed the function returns and resolveWithCooldown stamps
\* lastRpcTime in the same turn (line 284).
WaitForCooldown(r) ==
  /\ pc[r] = "waitForCooldown"
  /\ LET cooldown == stored.rpcCooldownMs
         elapsed == now - lastRpcTime
     IN IF elapsed < cooldown
        THEN /\ wakeAt' = [wakeAt EXCEPT ![r] = now + (cooldown - elapsed)]
             /\ pc' = [pc EXCEPT ![r] = "setTimeout"]
             /\ UNCHANGED lastRpcTime
        ELSE /\ lastRpcTime' = now
             /\ pc' = [pc EXCEPT ![r] = "getConfig"]
             /\ UNCHANGED wakeAt
  /\ UNCHANGED <<now, stored, cache, addresses, conf, cached, readNow, uncached,
                 chunks, chunkIdx, fresh, results, responses, rpcLog, rpcOutcome>>
  /\ UNCHANGED pureVars

\* A timer after which resolveAddresses is called without the stamp.
TimerFiresNoStamp(r) ==
  /\ pc[r] = "setTimeout"
  /\ now >= wakeAt[r]
  /\ pc' = [pc EXCEPT ![r] = "getConfig"]
  /\ UNCHANGED <<now, lastRpcTime, stored, cache, addresses, wakeAt, conf,
                 cached, readNow, uncached, chunks, chunkIdx, fresh, results,
                 responses, rpcLog, rpcOutcome>>
  /\ UNCHANGED pureVars

\* The timer of waitForCooldown fires (line 277); resolveWithCooldown
\* stamps lastRpcTime (line 284) and calls resolveAddresses.
TimerFires(r) ==
  /\ pc[r] = "setTimeout"
  /\ now >= wakeAt[r]
  /\ lastRpcTime' = now
  /\ pc' = [pc EXCEPT ![r] = "getConfig"]
  /\ UNCHANGED <<now, stored, cache, addresses, wakeAt, conf, cached, readNow,
                 uncached, chunks, chunkIdx, fresh, results, responses, rpcLog,
                 rpcOutcome>>
  /\ UNCHANGED pureVars

\* resolveAddresses from the end of the cache read on (lines 239-264), for
\* results res and misses unc: either the first transport call starts, or
\* the function returns and the handler responds (line 317).
AfterCacheRead(r, res, unc, maxBatch) ==
  /\ results' = [results EXCEPT ![r] = res]
  /\ uncached' = [uncached EXCEPT ![r] = unc]
  /\ IF Len(unc) > 0
     THEN LET cs == MakeChunks(unc, maxBatch)
          IN /\ chunks' = [chunks EXCEPT ![r] = cs]
             /\ chunkIdx' = [chunkIdx EXCEPT ![r] = 1]
             /\ rpcLog' = [rpcLog EXCEPT ![r] = Append(@, [chunk |-> cs[1], t |-> now])]
             /\ pc' = [pc EXCEPT ![r] = "fetch"]
     ELSE /\ pc' = [pc EXCEPT ![r] = "resolved"]
          /\ UNCHANGED <<chunks, chunkIdx, rpcLog>>

\* A resolveAddresses that reads the cache whatever cacheEnabled says.
GetConfigAlwaysRead(r) ==
  /\ pc[r] = "getConfig"
  /\ conf' = [conf EXCEPT ![r] = [cacheEnabled |-> stored.cacheEnabled,
                                  cacheTtlMs |-> stored.cacheTtlMs,
                                  maxBatch |-> stored.maxBatchSize]]
  /\ pc' = [pc EXCEPT ![r] = "cacheRead"]
  /\ UNCHANGED <<results, uncached, chunks, chunkIdx, rpcLog>>
  /\ UNCHANGED <<now, lastRpcTime, stored, cache, addresses, wakeAt, cached,
                 readNow, fresh, responses, rpcOutcome>>
  /\ UNCHANGED pureVars

\* resolveAddresses after its getConfig has settled (lines 200-221).
GetConfig(r) ==
  /\ pc[r] = "getConfig"
  /\ LET c == [cacheEnabled |-> stored.cacheEnabled,
               cacheTtlMs |-> stored.cacheTtlMs,
               maxBatch |-> stored.maxBatchSize]
     IN /\ conf' = [conf EXCEPT ![r] = c]
        /\ IF c.cacheEnabled
           THEN /\ pc' = [pc EXCEPT ![r] = "cacheRead"]
                /\ UNCHANGED <<results, uncached, chunks, chunkIdx, rpcLog>>
           ELSE AfterCacheRead(r, EmptyMap, addresses[r], c.maxBatch)
  /\ UNCHANGED <<now, lastRpcTime, stored, cache, addresses, wakeAt, cached,
                 readNow, fresh, responses, rpcOutcome>>
  /\ UNCHANGED pureVars

\* resolveAddresses after storage.local.get(keys) has settled (lines 221-237).
CacheRead(r) ==
  /\ pc[r] = "cacheRead"
  /\ LET keys == {cacheKey(addresses[r][i]) : i \in 1..Len(addresses[r])}
         got == [k \in keys \cap DOMAIN cache |-> cache[k]]
         ru == CacheReadLoop(addresses[r], got, now, conf[r].cacheTtlMs, 1,
                             EmptyMap, <<>>)
     IN /\ cached' = [cached EXCEPT ![r] = got]
        /\ readNow' = [readNow EXCEPT ![r] = now]
        /\ AfterCacheRead(r, ru[1], ru[2], conf[r].maxBatch)
  /\ UNCHANGED <<now, lastRpcTime, stored, cache, addresses, wakeAt, conf,
                 fresh, responses, rpcOutcome>>
  /\ UNCHANGED pureVars

\* resolveAddresses after a chunk is done (lines 260-264), for results res:
\* the next transport call starts, or the function returns.
NextChunk(r, res) ==
  /\ results' = [results EXCEPT ![r] = res]
  /\ IF chunkIdx[r] < Len(chunks[r])
     THEN /\ chunkIdx' = [chunkIdx EXCEPT ![r] = @ + 1]
          /\ rpcLog' = [rpcLog EXCEPT ![r] =
                          Append(@, [chunk |-> chunks[r][chunkIdx[r] + 1], t |-> now])]
          /\ pc' = [pc EXCEPT ![r] = "fetch"]
     ELSE /\ pc' = [pc EXCEPT ![r] = "resolved"]
          /\ UNCHANGED <<chunkIdx, rpcLog>>

\* A chunk loop that does not wait for the cache write of a chunk before it
\* starts the transport call of the next one.
RpcSettlesNoWriteWait(r, o) ==
  /\ pc[r] = "fetch"
  /\ LET chunk == chunks[r][chunkIdx[r]]
     IN /\ o \in Outcomes(chunk)
        /\ rpcOutcome' = [rpcOutcome EXCEPT ![r] = Append(@, o)]
        /\ IF Throws(o)
           THEN /\ pc' = [pc EXCEPT ![r] = "rejected"]
                /\ UNCHANGED <<cache, fresh, results, chunkIdx, rpcLog>>
           ELSE LET fr == resolveViaRPC(chunk, o)
                IN /\ fresh' = [fresh EXCEPT ![r] = fr]
                   /\ NextChunk(r, MergeFresh(results[r], fr))
                   /\ IF conf[r].cacheEnabled
                      THEN cache' = StorageSet(cache, ToStoreLoop(chunk, fr, now, 1, EmptyMap))
                      ELSE UNCHANGED cache
  /\ UNCHANGED <<now, lastRpcTime, stored, addresses, wakeAt, conf, cached,
                 readNow, uncached, chunks, responses>>
  /\ UNCHANGED pureVars

\* The transport call of the current chunk settles as o (lines 165-186 and
\* 248-258): a rejection propagates to the catch of the handler (line 320).
RpcSettles(r, o) ==
  /\ pc[r] = "fetch"
  /\ LET chunk == chunks[r][chunkIdx[r]]
     IN /\ o \in Outcomes(chunk)
        /\ rpcOutcome' = [rpcOutcome EXCEPT ![r] = Append(@, o)]
        /\ IF Throws(o)
           THEN /\ pc' = [pc EXCEPT ![r] = "rejected"]
                /\ UNCHANGED <<cache, fresh, results, chunkIdx, rpcLog>>
           ELSE LET fr == resolveViaRPC(chunk, o)
                IN /\ fresh' = [fresh EXCEPT ![r] = fr]
                   /\ IF conf[r].cacheEnabled
                      THEN /\ cache' = StorageSet(cache, ToStoreLoop(chunk, fr, now, 1, EmptyMap))
                           /\ pc' = [pc EXCEPT ![r] = "cacheWrite"]
                           /\ UNCHANGED <<results, chunkIdx, rpcLog>>
                      ELSE /\ NextChunk(r, MergeFresh(results[r], fr))
                           /\ UNCHANGED cache
  /\ UNCHANGED <<now, lastRpcTime, stored, addresses, wakeAt, conf, cached,
                 readNow, uncached, chunks, responses>>
  /\ UNCHANGED pureVars

\* resolveAddresses after storage.local.set(toStore) has settled (lines 257-261).
CacheWriteDone(r) ==
  /\ pc[r] = "cacheWrite"
  /\ NextChunk(r, MergeFresh(results[r], fresh[r]))
  /\ UNCHANGED <<now, lastRpcTime, stored, cache, addresses, wakeAt, conf, cached,
                 readNow, uncached, chunks, fresh, responses, rpcOutcome>>
  /\ UNCHANGED pureVars

\* The locals of resolveWithCooldown and resolveAddresses go out of scope
\* when the promise settles and its callback has run.
DropLocals(r) ==
  /\ wakeAt' = [wakeAt EXCEPT ![r] = 0]
  /\ conf' = [conf EXCEPT ![r] = NoConf]
  /\ cached' = [cached EXCEPT ![r] = EmptyMap]
  /\ readNow' = [readNow EXCEPT ![r] = 0]
  /\ uncached' = [uncached EXCEPT ![r] = <<>>]
  /\ chunks' = [chunks EXCEPT ![r] = <<>>]
  /\ chunkIdx' = [chunkIdx EXCEPT ![r] = 0]
  /\ fresh' = [fresh EXCEPT ![r] = EmptyMap]
  /\ results' = [results EXCEPT ![r] = EmptyMap]
  /\ rpcOutcome' = [rpcOutcome EXCEPT ![r] = <<>>]

\* The then callback of the RESOLVE handler (lines 315-317).
ThenRespond(r) ==
  /\ pc[r] = "resolved"
  /\ responses' = [responses EXCEPT ![r] =
                     Append(@, [names |-> results[r], site |-> "then"])]
  /\ pc' = [pc EXCEPT ![r] = "done"]
  /\ DropLocals(r)
  /\ UNCHANGED <<now, lastRpcTime, stored, cache, addresses, rpcLog>>
  /\ UNCHANGED pureVars

\* A handler without the catch callback: a rejection sends nothing.
CatchRespondSilent(r) ==
  /\ pc[r] = "rejected"
  /\ pc' = [pc EXCEPT ![r] = "done"]
  /\ DropLocals(r)
  /\ UNCHANGED <<now, lastRpcTime, stored, cache, addresses, responses, rpcLog>>
  /\ UNCHANGED pureVars

\* The catch callback of the RESOLVE handler (lines 318-321).
CatchRespond(r) ==
  /\ pc[r] = "rejected"
  /\ responses' = [responses EXCEPT ![r] =
                     Append(@, [names |-> EmptyMap, site |-> "catch"])]
  /\ pc' = [pc EXCEPT ![r] = "done"]
  /\ DropLocals(r)
  /\ UNCHANGED <<now, lastRpcTime, stored, cache, addresses, rpcLog>>
  /\ UNCHANGED pureVars

Next ==
  \/ Tick
  \/ \E r \in Req, msg \in ConcMessages : OnResolve(r, msg)
  \/ \E r \in Req : WaitForCooldown(r)
  \/ \E r \in Req : TimerFires(r)
  \/ \E r \in Req : GetConfig(r)
  \/ \E r \in Req : CacheRead(r)
  \/ \E r \in Req : \E o \in AllOutcomes : RpcSettles(r, o)
  \/ \E r \in Req : CacheWriteDone(r)
  \/ \E r \in Req : ThenRespond(r)
  \/ \E r \in Req : CatchRespond(r)

Spec == Init /\ [][Next]_vars

\* Concurrent requests for one address, for the progress of every request.
NextLive ==
  \/ Tick
  \/ \E r \in Req, msg \in LiveMessages : OnResolve(r, msg)
  \/ \E r \in Req : WaitForCooldown(r)
  \/ \E r \in Req : TimerFires(r)
  \/ \E r \in Req : GetConfig(r)
  \/ \E r \in Req : CacheRead(r)
  \/ \E r \in Req : \E o \in AllOutcomes : RpcSettles(r, o)
  \/ \E r \in Req : CacheWriteDone(r)
  \/ \E r \in Req : ThenRespond(r)
  \/ \E r \in Req : CatchRespond(r)

\* Storage reads and writes, transport calls and timers settle, promise
\* callbacks run, and the clock advances.
FairSpec ==
  /\ Init
  /\ [][NextLive]_vars
  /\ WF_vars(Tick)
  /\ \A r \in Req :
       /\ WF_vars(WaitForCooldown(r))
       /\ WF_vars(TimerFires(r))
       /\ WF_vars(GetConfig(r))
       /\ WF_vars(CacheRead(r))
       /\ WF_vars(\E o \in AllOutcomes : RpcSettles(r, o))
       /\ WF_vars(CacheWriteDone(r))
       /\ WF_vars(ThenRespond(r))
       /\ WF_vars(CatchRespond(r))

\* One RESOLVE request at a time, with the full message alphabet: a message
\* arrives only when no request is in flight, and the clock advances only
\* between requests or while a cooldown timer is pending.
Quiet == \A r \in Req : pc[r] \in {"idle", "done"}

TimerPending == \E r \in Req : pc[r] = "setTimeout"

NextSerial ==
  \/ (Quiet \/ TimerPending) /\ Tick
  \/ \E r \in Req, msg \in Messages : Quiet /\ OnResolve(r, msg)
  \/ \E r \in Req : WaitForCooldown(r)
  \/ \E r \in Req : TimerFires(r)
  \/ \E r \in Req : GetConfig(r)
  \/ \E r \in Req : CacheRead(r)
  \/ \E r \in Req : \E o \in AllOutcomes : RpcSettles(r, o)
  \/ \E r \in Req : CacheWriteDone(r)
  \/ \E r \in Req : ThenRespond(r)
  \/ \E r \in Req : CatchRespond(r)

SpecSerial == InitSerial /\ [][NextSerial]_vars

\* --------------------------------------- content script, replaceAnchor
\* White space of String.prototype.trim that the texts contain.
WhiteSpace == {" ", "\n"}

\* String.prototype.trim
trim(str) ==
  LET inked == {i \in 1..Len(str) : str[i] \notin WhiteSpace}
  IN IF inked = {} THEN <<>>
     ELSE SubSeq(str,
                 CHOOSE i \in inked : \A j \in inked : i <= j,
                 CHOOSE i \in inked : \A j \in inked : i >= j)

\* Node.textContent of an element: the texts of its text nodes, joined.
textContent(nodes) == Join(nodes, 1, Len(nodes))

DotEth == <<".", "e", "t", "h">>

ZeroX == <<"0", "x">>

\* The TreeWalker loop (lines 297-304): the first text node with other
\* characters than white space gets the name as its text.
SetFirstText(nodes, name) ==
  LET inked == {i \in 1..Len(nodes) : trim(nodes[i]) # <<>>}
  IN IF inked = {} THEN nodes
     ELSE [nodes EXCEPT ![CHOOSE i \in inked : \A j \in inked : i <= j] = name]

\* !name for const name = nameMap.get(fullAddress)   (lines 280-281)
NoName(nameMap, fullAddress) ==
  fullAddress \notin DOMAIN nameMap \/ nameMap[fullAddress] = <<>>

\* A replaceAnchor that does not look at the ignore list.
replaceAnchorNoIgnore(a, fullAddress, nameMap, replaceEns, ignoreSet) ==
  LET displayText == trim(textContent(a.nodes))
  IN IF NoName(nameMap, fullAddress) THEN a
     ELSE IF displayText = <<>> THEN a
     ELSE IF EndsWith(displayText, DotEth) /\ ~replaceEns THEN a
     ELSE IF ~EndsWith(displayText, DotEth) /\ ~StartsWith(displayText, ZeroX) THEN a
     ELSE [nodes |-> SetFirstText(a.nodes, nameMap[fullAddress]), done |-> TRUE]

\* replaceAnchor (lines 279-307): the anchor after the call.
replaceAnchor(a, fullAddress, nameMap, replaceEns, ignoreSet) ==
  LET displayText == trim(textContent(a.nodes))
  IN IF NoName(nameMap, fullAddress) THEN a
     ELSE IF displayText = <<>> THEN a
     ELSE IF displayText \in ignoreSet THEN a
     ELSE IF EndsWith(displayText, DotEth) /\ ~replaceEns THEN a
     ELSE IF ~EndsWith(displayText, DotEth) /\ ~StartsWith(displayText, ZeroX) THEN a
     ELSE [nodes |-> SetFirstText(a.nodes, nameMap[fullAddress]), done |-> TRUE]

\* The texts of the text nodes of an anchor.
NodeTexts ==
  {<<>>,
   <<" ">>,
   <<"0", "x", "A", "b">>,
   <<"\n", "0", "x", "A", "b", " ">>,
   <<"v", ".", "e", "t", "h">>,
   <<"0", "x", "1", ".", "e", "t", "h">>,
   <<".", "e", "t", "h">>,
   <<"l", "i", "n", "k">>}

MaxNodes == 2

Anchors == [nodes : SeqsUpTo(NodeTexts, MaxNodes), done : {FALSE}]

NameN1 == <<"n", "1">>

\* The names the service worker returned: processRoot goes on only with a
\* map that is not empty (line 321).
NameMaps ==
  {[k \in {AddrLow} |-> NameN1],
   [k \in {AddrLow} |-> <<>>],
   [k \in {AddrB} |-> NameN1]}

\* config.ignoreList as a Set (line 323).
IgnoreSets ==
  {{},
   {<<"0", "x", "A", "b">>, <<"v", ".", "e", "t", "h">>},
   {<<"0", "x">>, DotEth, <<" ">>}}

InitReplace ==
  /\ WorkerInit({c \in ConcConfigs : c.cacheEnabled})
  /\ CodecOff
  /\ EncoderOff
  /\ PickerOff
  /\ StoreOff
  /\ anchor \in Anchors
  /\ raArgs \in [fullAddress : {AddrLow}, nameMap : NameMaps,
                 replaceEns : BOOLEAN, ignoreSet : IgnoreSets]
  /\ raPc = "call"
  /\ RulesOff
  /\ OptionsOff
  /\ ScanOff

\* replaceAnchor(anchor, fullAddress, nameMap, config.replaceEns, ignoreSet)
\* (line 326)
ReplaceAnchor ==
  /\ raPc = "call"
  /\ anchor' = replaceAnchor(anchor, raArgs.fullAddress, raArgs.nameMap,
                             raArgs.replaceEns, raArgs.ignoreSet)
  /\ raPc' = "returned"
  /\ UNCHANGED raArgs
  /\ UNCHANGED <<workerVars, codecVars, encVars, pickVars, storeVars, ruleVars,
                 optVars, scanVars>>

NextReplace == ReplaceAnchor

SpecReplace == InitReplace /\ [][NextReplace]_vars

\* ------------------------------------------------- CLEAR_CACHE handler
MaxClears == 1

\* RESOLVE messages of addresses that differ in letter case only.
StoreMessages == MsgsOf({Str(AddrUp), Str(AddrLow)}, MaxAddrs)

\* chrome.storage.local outlives the service worker: the cache the worker
\* starts with is empty, or holds a name and a negative entry written one
\* tick before the start.
WarmCaches ==
  {EmptyMap,
   [k \in {<<"wns_", AddrLow>>, <<"wns_", AddrB>>} |->
      [n |-> IF k = <<"wns_", AddrLow>> THEN "n1" ELSE Null, t |-> StartTime - 1]]}

\* The other keys of chrome.storage.local: the useSync flag and
\* configuration values the options page has saved.
LocalConfs ==
  {[k \in {<<"useSync">>, <<"cacheEnabled">>, <<"maxBatchSize">>} |->
      CASE k = <<"useSync">> -> "false"
        [] k = <<"cacheEnabled">> -> "true"
        [] OTHER -> "50"]}

\* k.startsWith('wns_'), for a key made of a prefix and an address or of a
\* configuration name.
KeyStartsWith(k, prefix) == k[1] = prefix

\* A filter that keeps every key of the store.
FilterAllKeys(keys) == keys

\* Object.keys(items).filter(k => k.startsWith('wns_'))   (line 296)
FilterWnsKeys(keys) == {k \in keys : KeyStartsWith(k, "wns_")}

\* chrome.storage.local.remove(keys), on one part of the store.
StorageRemove(store, keys) == [k \in (DOMAIN store) \ keys |-> store[k]]

\* The configurations of the runs with CLEAR_CACHE: one chunk per request.
StoreConfigs == {c \in Configs : c.maxBatchSize = MaxBatch}

InitStore ==
  /\ WorkerInitWith(StoreConfigs, WarmCaches)
  /\ CodecOff
  /\ EncoderOff
  /\ PickerOff
  /\ localConf \in LocalConfs
  /\ clearPc = "idle"
  /\ wnsKeys = {}
  /\ cleared = <<>>
  /\ PagesOff

\* onMessage, CLEAR_CACHE branch: chrome.storage.local.get(null) is issued
\* (lines 293-295).
OnClearCache ==
  /\ clearPc = "idle"
  /\ Len(cleared) < MaxClears
  /\ clearPc' = "get"
  /\ UNCHANGED <<localConf, wnsKeys, cleared>>
  /\ UNCHANGED <<workerVars, codecVars, encVars, pickVars, pagesVars>>

\* get(null) settles with every item of the store; the keys are filtered
\* and remove(wnsKeys) is issued (lines 295-297).
StorageGetAll ==
  /\ clearPc = "get"
  /\ wnsKeys' = FilterWnsKeys((DOMAIN cache) \cup (DOMAIN localConf))
  /\ clearPc' = "remove"
  /\ UNCHANGED <<localConf, cleared>>
  /\ UNCHANGED <<workerVars, codecVars, encVars, pickVars, pagesVars>>

\* remove(wnsKeys) settles and the handler responds (lines 297-299).
StorageRemoved ==
  /\ clearPc = "remove"
  /\ cache' = StorageRemove(cache, wnsKeys)
  /\ localConf' = StorageRemove(localConf, wnsKeys)
  /\ cleared' = Append(cleared, Cardinality(wnsKeys))
  /\ wnsKeys' = {}
  /\ clearPc' = "idle"
  /\ UNCHANGED <<now, lastRpcTime, stored, reqVars>>
  /\ UNCHANGED <<codecVars, encVars, pickVars, pagesVars>>

\* One message at a time, RESOLVE or CLEAR_CACHE: a message arrives only
\* when no handler is in flight.
NoClear == clearPc = "idle"

NextStore ==
  \/ (Quiet \/ TimerPending) /\ NoClear /\ Tick
  \/ \E r \in Req, msg \in StoreMessages : Quiet /\ NoClear /\ OnResolve(r, msg)
  \/ \E r \in Req : WaitForCooldown(r)
  \/ \E r \in Req : TimerFires(r)
  \/ \E r \in Req : GetConfig(r)
  \/ \E r \in Req : CacheRead(r)
  \/ \E r \in Req : \E o \in AllOutcomes : RpcSettles(r, o)
  \/ \E r \in Req : CacheWriteDone(r)
  \/ \E r \in Req : ThenRespond(r)
  \/ \E r \in Req : CatchRespond(r)
  \/ Quiet /\ OnClearCache
  \/ StorageGetAll
  \/ StorageRemoved

SpecStore == InitStore /\ [][NextStore]_vars

\* ----------------------------------- CLEAR_CACHE beside RESOLVE requests
\* RESOLVE messages for one address.
RaceMessages == MsgsOf({Str(AddrUp)}, MaxAddrsConc)

\* The cache is enabled and every request is one chunk.
RaceConfigs == {c \in ConcConfigs : c.cacheEnabled}

InitRace ==
  /\ WorkerInitWith(RaceConfigs, WarmCaches)
  /\ CodecOff
  /\ EncoderOff
  /\ PickerOff
  /\ localConf \in LocalConfs
  /\ clearPc = "idle"
  /\ wnsKeys = {}
  /\ cleared = <<>>
  /\ PagesOff

\* No CLEAR_CACHE message has arrived yet.
BeforeClear == clearPc = "idle" /\ cleared = <<>>

\* RESOLVE requests and one CLEAR_CACHE whose steps interleave freely; the
\* RESOLVE messages all arrive before the CLEAR_CACHE message.
NextRace ==
  \/ Tick
  \/ \E r \in Req, msg \in RaceMessages : BeforeClear /\ OnResolve(r, msg)
  \/ \E r \in Req : WaitForCooldown(r)
  \/ \E r \in Req : TimerFires(r)
  \/ \E r \in Req : GetConfig(r)
  \/ \E r \in Req : CacheRead(r)
  \/ \E r \in Req : \E o \in AllOutcomes : RpcSettles(r, o)
  \/ \E r \in Req : CacheWriteDone(r)
  \/ \E r \in Req : ThenRespond(r)
  \/ \E r \in Req : CatchRespond(r)
  \/ OnClearCache
  \/ StorageGetAll
  \/ StorageRemoved

SpecRace == InitRace /\ [][NextRace]_vars

\* ------------------------------------------- resolveViaRPC, decoder tail
\* The JS string of a decoded entry, for the texts the slots can give.
JsString(entry) ==
  CASE entry.null -> Null
    [] entry.text = <<110, 49>> -> "n1"
    [] entry.text = <<110, 50>> -> "n2"
    [] entry.text = <<110>> -> "n"
    [] entry.text = [i \in 1..MAX_NAME_LENGTH |-> 110] -> "n64"
    [] OTHER -> "other"

Chunks == SeqsUpTo({AddrUp, AddrB}, MaxSlots)

InitDecode ==
  /\ WorkerInit({c \in ConcConfigs : c.cacheEnabled})
  /\ rpcSlots \in SeqsUpTo(SlotKinds, MaxSlots)
  /\ damage \in Damages
  /\ hexArg = Reply(rpcSlots, damage)
  /\ rvAddresses \in Chunks
  /\ decoded = Pending
  /\ rvResults = EmptyMap
  /\ rvPc = "decode"
  /\ EncoderOff
  /\ PickerOff
  /\ RestOff

\* const names = decodeAggregate3(json.result)   (line 180)
Decode ==
  /\ rvPc = "decode"
  /\ decoded' = decodeAggregate3(hexArg)
  /\ rvPc' = IF decoded'.status = "thrown" THEN "thrown" ELSE "attribute"
  /\ UNCHANGED <<rpcSlots, damage, hexArg, rvAddresses, rvResults>>
  /\ UNCHANGED <<workerVars, encVars, pickVars, restVars>>

\* The attribution loop and the return (lines 182-186).
Attribute ==
  /\ rvPc = "attribute"
  /\ rvResults' = AttributeLoop(rvAddresses,
                                [i \in 1..Len(decoded.names) |-> JsString(decoded.names[i])],
                                1, EmptyMap)
  /\ rvPc' = "returned"
  /\ UNCHANGED <<rpcSlots, damage, hexArg, rvAddresses, decoded>>
  /\ UNCHANGED <<workerVars, encVars, pickVars, restVars>>

NextDecode == Decode \/ Attribute

SpecDecode == InitDecode /\ [][NextDecode]_vars

\* ----------------------------------------------- resolveViaRPC, encoder
InitEncode ==
  /\ WorkerInit({c \in ConcConfigs : c.cacheEnabled})
  /\ CodecOff
  /\ encAddresses \in EncInputs
  /\ calldata = <<>>
  /\ encPc = "call"
  /\ PickerOff
  /\ RestOff

\* const calldata = encodeMulticall(addresses)   (line 162)
Encode ==
  /\ encPc = "call"
  /\ calldata' = encodeMulticall(encAddresses)
  /\ encPc' = "returned"
  /\ UNCHANGED encAddresses
  /\ UNCHANGED <<workerVars, codecVars, pickVars, restVars>>

NextEncode == Encode

SpecEncode == InitEncode /\ [][NextEncode]_vars

\* ------------------------------------- content script, PRIMARY branch
\* The anchors: an href with up to MaxOcc addresses, each in the path, in a
\* query parameter or in the fragment, and a display text.
MaxOcc == 2

\* An address that shares its first and last four digits with AddrUp.
AddrAB ==
  <<"0", "x">> \o [i \in 1..HexLen |->
                     IF i <= 4 \/ i > HexLen - 4 THEN "a" ELSE "b"]

HrefAddrs == {AddrUp, AddrAB}

InPath == 1

InQuery == 2

InHash == 3

Places ==
  [comp : {InPath},
   label : {SegAddress, SegHolder, SegToken, SegContract, <<"/", "t", "x", "/">>}]
  \cup
  [comp : {InQuery},
   label : {KeyA, <<"A", "d", "d", "r", "e", "s", "s">>, KeyToken, <<"q">>}]
  \cup
  [comp : {InHash},
   label : {HolderEq, AddressEq, <<>>}]

Occurrences == [place : Places, addr : HrefAddrs]

\* The text of occurrence k of an href.
Piece(occs, k) ==
  LET o == occs[k]
      again == k > 1 /\ occs[k - 1].place.comp = o.place.comp
  IN CASE o.place.comp = InPath -> o.place.label \o o.addr
       [] o.place.comp = InQuery ->
            (IF again THEN <<"&">> ELSE <<"?">>) \o o.place.label \o <<"=">> \o o.addr
       [] o.place.comp = InHash ->
            (IF again THEN <<"&">> ELSE <<"#">>) \o o.place.label \o o.addr

HrefOf(origin, occs) ==
  origin \o Join([k \in 1..Len(occs) |-> Piece(occs, k)], 1, Len(occs))

\* An origin new URL() accepts and one it rejects.
GoodOrigin == <<"h", "t", "t", "p", "s", ":", "/", "/", "x", ".", "i", "o">>

BadOrigin == <<"h", "t", "t", "p", "s", ":", "/", "/", "[", "x", ".", "i", "o">>

Hrefs ==
  {HrefOf(origin, occs) :
     origin \in {GoodOrigin, BadOrigin},
     occs \in {q \in SeqsUpTo(Occurrences, MaxOcc) :
                 /\ q # <<>>
                 /\ \A k \in 2..Len(q) : q[k - 1].place.comp <= q[k].place.comp}}

Displays ==
  {<<"l", "i", "n", "k">>,
   <<"0", "x", "A", "A", "A", "A", "A", ".", ".", ".", "A", "A", "A", "A", "A">>,
   <<"0", "x", "a", "a", "a", "a", ".", ".", "A", "A", "A", "A">>,
   <<"0", "x", "a", "a", "a", "a", "b">> \o <<Ellipsis>> \o <<"b", "a", "a", "a", "a">>,
   <<"t", "o", " ", "0", "x", "a", "a", "a", "a", "b">> \o <<Ellipsis, Ellipsis>> \o <<"b", "a", "a", "a", "a", " ", "n", "o", "w">>,
   <<"0", "x", "1", "2", "3", "4", ".", ".", ".", "5", "6", "7", "8">>,
   AddrUp,
   AddrAB,
   AddrB}

InitPick ==
  /\ WorkerInit({c \in ConcConfigs : c.cacheEnabled})
  /\ CodecOff
  /\ EncoderOff
  /\ pkHref \in Hrefs
  /\ pkDisplay \in Displays
  /\ pkAddresses = <<>>
  /\ picked = <<>>
  /\ pkPc = "extract"
  /\ RestOff

\* const hrefAddresses = allAddressesInHref(href)   (content.js lines 256-257)
Extract ==
  /\ pkPc = "extract"
  /\ pkAddresses' = allAddressesInHref(pkHref)
  /\ pkPc' = IF pkAddresses' # <<>> THEN "pick" ELSE "secondary"
  /\ UNCHANGED <<pkHref, pkDisplay, picked>>
  /\ UNCHANGED <<workerVars, codecVars, encVars, restVars>>

\* const fullAddress = pickSubjectAddress(href, hrefAddresses, displayText)
\* (content.js line 259)
Pick ==
  /\ pkPc = "pick"
  /\ picked' = pickSubjectAddress(pkHref, pkAddresses, pkDisplay)
  /\ pkPc' = "picked"
  /\ UNCHANGED <<pkHref, pkDisplay, pkAddresses>>
  /\ UNCHANGED <<workerVars, codecVars, encVars, restVars>>

NextPick == Extract \/ Pick

SpecPick == InitPick /\ [][NextPick]_vars

\* A later scan comes to the same anchor, href and text unchanged, and calls
\* pickSubjectAddress again (content.js line 259).
Repick ==
  /\ pkPc = "picked"
  /\ pickedAgain' = pickSubjectAddress(pkHref, pkAddresses, pkDisplay)
  /\ pkPc' = "repicked"
  /\ UNCHANGED <<pkHref, pkDisplay, pkAddresses, picked>>
  /\ UNCHANGED <<workerVars, codecVars, encVars, storeVars, replVars, ruleVars,
                 optVars, domVars>>

NextRepick == Extract \/ Pick \/ Repick

SpecRepick == InitPick /\ [][NextRepick]_vars

\* ------------------------------------------ content script, href rules
\* The patterns of the href rules the model runs with.
\* [?&]a=(\w+)
ReQueryA == "[?&]a=(\\w+)"

\* /address/(0x[0-9a-fA-F]{40})
RePathAddress == "/address/(0x[0-9a-fA-F]{40})"

SlashAddress == <<"/", "a", "d", "d", "r", "e", "s", "s", "/">>

\* The match of the pattern re that starts at position p of str, as the
\* array exec returns (the whole match, then the groups), or <<>>.
ReMatchAt(re, str, p) ==
  IF re = ReQueryA
  THEN IF /\ p + 3 <= Len(str)
          /\ str[p] \in {"?", "&"}
          /\ str[p + 1] = "a"
          /\ str[p + 2] = "="
          /\ str[p + 3] \in WordChars
       THEN <<SubSeq(str, p, p + 2 + RunLength(str, WordChars, p + 3)),
              SubSeq(str, p + 3, p + 2 + RunLength(str, WordChars, p + 3))>>
       ELSE <<>>
  ELSE IF /\ p + 8 + 2 + HexLen <= Len(str)
          /\ SubSeq(str, p, p + 8) = SlashAddress
          /\ VALID_ETH_RE(SubSeq(str, p + 9, p + 8 + 2 + HexLen))
       THEN <<SubSeq(str, p, p + 8 + 2 + HexLen),
              SubSeq(str, p + 9, p + 8 + 2 + HexLen)>>
       ELSE <<>>

\* rule.re.exec(href) for a pattern without flags: the leftmost match, or
\* <<>> for null.
ReExec(re, str) ==
  LET at == {p \in 1..Len(str) : ReMatchAt(re, str, p) # <<>>}
  IN IF at = {} THEN <<>> ELSE ReMatchAt(re, str, Least(at))

\* const captured = m?.[rule.group], with <<>> for undefined and for ''.
Captured(rule, href) ==
  LET m == ReExec(rule.re, href)
  IN IF rule.group + 1 \in 1..Len(m) THEN m[rule.group + 1] ELSE <<>>

\* captured && VALID_ETH_RE.test(captured)   (line 60)
Yields(rule, href) ==
  Captured(rule, href) # <<>> /\ VALID_ETH_RE(Captured(rule, href))

\* A matchHrefRules in which the last rule with a valid address decides.
matchHrefRulesLast(rules, href) ==
  LET hits == {i \in 1..Len(rules) : Yields(rules[i], href)}
  IN IF hits = {} THEN NoAddress
     ELSE toLowerCase(Captured(rules[CHOOSE i \in hits : \A j \in hits : i >= j], href))

\* matchHrefRules (lines 55-65)
matchHrefRules(rules, href) ==
  LET hits == {i \in 1..Len(rules) : Yields(rules[i], href)}
  IN IF hits = {} THEN NoAddress
     ELSE toLowerCase(Captured(rules[Least(hits)], href))

MaxRules == 2

\* The compiled rules: a pattern and the index of the capture group.
Rules == [re : {ReQueryA, RePathAddress}, group : 0..2]

QueryA == <<"?", "a", "=">>

\* The hrefs of the anchors the rules are tried on.
RuleHrefs ==
  {<<>>,
   GoodOrigin \o SlashAddress \o AddrUp,
   GoodOrigin \o SlashAddress \o AddrUp \o <<"A">>,
   GoodOrigin \o <<"/", "t", "x">> \o QueryA \o AddrB,
   GoodOrigin \o SlashAddress \o AddrUp \o QueryA \o AddrB,
   GoodOrigin \o SlashAddress \o AddrUp \o QueryA \o <<"z", "z">>,
   GoodOrigin \o <<"/", "t", "x">> \o QueryA \o <<"0", "x", "1", "2">>,
   GoodOrigin \o <<"/">> \o QueryA \o <<"z", "&", "a", "=">> \o AddrB,
   GoodOrigin \o <<"/">> \o AddrAB \o QueryA \o <<"z", "&", "b", "=">> \o AddrB}

InitRules ==
  /\ WorkerInit({c \in ConcConfigs : c.cacheEnabled})
  /\ CodecOff
  /\ EncoderOff
  /\ StoreOff
  /\ ReplaceOff
  /\ pkHref \in RuleHrefs
  /\ pkDisplay \in {<<"l", "i", "n", "k">>, AddrB}
  /\ pkAddresses = <<>>
  /\ picked = <<>>
  /\ pkPc = "custom"
  /\ HREF_RULES \in SeqsUpTo(Rules, MaxRules)
  /\ ruleMatch = <<>>
  /\ OptionsOff
  /\ ScanOff

\* collectEthereumLinks, CUSTOM branch (content.js lines 246-254).
Custom ==
  /\ pkPc = "custom"
  /\ IF Len(HREF_RULES) # 0
     THEN /\ ruleMatch' = matchHrefRules(HREF_RULES, pkHref)
          /\ IF ruleMatch' # NoAddress
             THEN picked' = ruleMatch' /\ pkPc' = "pushed"
             ELSE picked' = picked /\ pkPc' = "extract"
     ELSE /\ pkPc' = "extract"
          /\ UNCHANGED <<ruleMatch, picked>>
  /\ UNCHANGED <<pkHref, pkDisplay, pkAddresses, HREF_RULES>>
  /\ UNCHANGED <<workerVars, codecVars, encVars, storeVars, replVars, optVars,
                 scanVars>>

NextRules == Custom \/ Extract \/ Pick

SpecRules == InitRules /\ [][NextRules]_vars

\* ------------------------------------- content script, scans of a root
\* The document: a container element below document.body and the anchors
\* that can stand in it.  anchors[a] is anchor a (href, text nodes, whether
\* it carries data-wns-resolved), inC the anchors that are children of the
\* container, cAttached whether the container is in the document.
BodyRoot == [tag |-> "BODY", id |-> 0]

DivRoot == [tag |-> "DIV", id |-> 0]

ARoot(a) == [tag |-> "A", id |-> a]

\* document.contains(anchor)   (line 326)
AnchorInDocument(d, a) == d.cAttached /\ a \in d.inC

\* document.contains(root)   (line 350)
InDocument(d, root) ==
  CASE root.tag = "BODY" -> TRUE
    [] root.tag = "DIV" -> d.cAttached
    [] root.tag = "A" -> AnchorInDocument(d, root.id)

\* The anchors of a set in document order.
RECURSIVE InOrder(_, _, _)
InOrder(S, a, n) ==
  IF a > n THEN <<>>
  ELSE (IF a \in S THEN <<a>> ELSE <<>>) \o InOrder(S, a + 1, n)

\* candidates of collectEthereumLinks (lines 238-239): the descendants of
\* root that are anchors without the attribute, and before them root itself
\* when it is such an anchor.
CandidatesOf(d, root) ==
  LET open == {a \in 1..Len(d.anchors) : ~d.anchors[a].done}
  IN CASE root.tag = "BODY" ->
            InOrder({a \in open : AnchorInDocument(d, a)}, 1, Len(d.anchors))
       [] root.tag = "DIV" -> InOrder(open \cap d.inC, 1, Len(d.anchors))
       [] root.tag = "A" -> InOrder(open \cap {root.id}, 1, Len(d.anchors))

\* A matchAbbrToHref that matches the display text against addresses seen
\* elsewhere on the page.
matchAbbrToPage(displayText, href) ==
  matchAbbrToAddresses(displayText, <<AddrLow, AddrB>>)

\* matchAbbrToHref (lines 135-137)
matchAbbrToHref(displayText, href) ==
  matchAbbrToAddresses(displayText, allAddressesInHref(href))

\* An entry of results; branch names the push statement it comes from.
Link(a, fullAddress, branch) ==
  [anchor |-> a, fullAddress |-> fullAddress, branch |-> branch]

\* SECONDARY branch (lines 265-271)
Secondary(a, href, displayText, matched) ==
  IF matched # NoAddress THEN <<Link(a, matched, "SECONDARY")>> ELSE <<>>

\* PRIMARY branch (lines 256-263), then SECONDARY
Primary(a, href, displayText, hrefAddresses) ==
  IF Len(hrefAddresses) # 0
  THEN <<Link(a, pickSubjectAddress(href, hrefAddresses, displayText), "PRIMARY")>>
  ELSE Secondary(a, href, displayText, matchAbbrToHref(displayText, href))

\* CUSTOM branch (lines 246-254), then PRIMARY
CustomBranch(rules, a, href, displayText, ruleHit) ==
  IF Len(rules) # 0 /\ ruleHit # NoAddress
  THEN <<Link(a, ruleHit, "CUSTOM")>>
  ELSE Primary(a, href, displayText, allAddressesInHref(href))

\* The body of the loop over candidates (lines 241-272): the entries pushed
\* for anchor a.
LinksOf(rules, a, anchorRec) ==
  CustomBranch(rules, a, anchorRec.href, trim(textContent(anchorRec.nodes)),
               IF Len(rules) # 0 THEN matchHrefRules(rules, anchorRec.href)
               ELSE NoAddress)

\* collectEthereumLinks (lines 234-275): results
RECURSIVE collectEthereumLinks(_, _, _, _)
collectEthereumLinks(rules, d, candidates, i) ==
  IF i > Len(candidates) THEN <<>>
  ELSE LinksOf(rules, candidates[i], d.anchors[candidates[i]])
         \o collectEthereumLinks(rules, d, candidates, i + 1)

\* addressSet after collectEthereumLinks
AddressSetOf(links) == {links[i].fullAddress : i \in 1..Len(links)}

\* replaceAnchor gets as far as the TreeWalker loop (lines 280-292 let it
\* pass).
ReachesWrite(a, fullAddress, nameMap, replaceEns, ignoreSet) ==
  LET displayText == trim(textContent(a.nodes))
  IN /\ ~NoName(nameMap, fullAddress)
     /\ displayText # <<>>
     /\ displayText \notin ignoreSet
     /\ IF EndsWith(displayText, DotEth) THEN replaceEns
        ELSE StartsWith(displayText, ZeroX)

\* One turn of the loop of processRoot (lines 325-327) on the anchors and
\* the count of their text writes.
ReplaceLink(st, d, link, a, nameMap, cfg) ==
  IF ~AnchorInDocument(d, link.anchor) THEN st
  ELSE [anchors |->
          [st.anchors EXCEPT ![link.anchor] =
             LET r == replaceAnchor([nodes |-> a.nodes, done |-> a.done],
                                    link.fullAddress, nameMap,
                                    cfg.replaceEns, cfg.ignoreSet)
             IN [a EXCEPT !.nodes = r.nodes, !.done = r.done]],
        writes |->
          IF ReachesWrite(a, link.fullAddress, nameMap, cfg.replaceEns,
                          cfg.ignoreSet)
          THEN [st.writes EXCEPT ![link.anchor] = @ + 1]
          ELSE st.writes]

RECURSIVE ReplaceLoop(_, _, _, _, _, _)
ReplaceLoop(st, d, links, i, nameMap, cfg) ==
  IF i > Len(links) THEN st
  ELSE ReplaceLoop(ReplaceLink(st, d, links[i], st.anchors[links[i].anchor],
                               nameMap, cfg),
                   d, links, i + 1, nameMap, cfg)

\* A processRoot call that has just been made.
NewScan(root) ==
  [root |-> root, pc |-> "loadConfig", links |-> <<>>,
   cfg |-> [replaceEns |-> FALSE, ignoreSet |-> {}]]

MaxScans == 3

\* A name that itself begins like an address.
Name0x == <<"0", "x", "n">>

ScanNames == {NameN1, Name0x}

\* The maps resolveAddresses of the content script can return (lines 93-103):
\* names for some of the addresses sent, or an empty map.
NameMapsFor(addressSet) == UNION {[T -> ScanNames] : T \in SUBSET addressSet}

\* config.replaceEns and config.ignoreList as loadConfig returned them.
ScanConfigs == [replaceEns : {FALSE}, ignoreSet : {{}, {Name0x}}]

otherVars ==
  <<workerVars, codecVars, encVars, pickVars, storeVars, replVars, ruleVars,
    optVars, pickedAgain>>

\* The scan after collectEthereumLinks: processRoot returns when addressSet
\* is empty (line 318), else it sends the addresses (line 320).
Collected(scan, links, cfg) ==
  [scan EXCEPT !.links = links, !.cfg = cfg,
               !.pc = IF AddressSetOf(links) = {} THEN "done" ELSE "resolve"]

\* processRoot from the return of loadConfig to the next await or the
\* return (lines 313-320).
Collect(s, cfg) ==
  /\ s <= Len(scans)
  /\ scans[s].pc = "loadConfig"
  /\ scans' = [scans EXCEPT ![s] =
                 Collected(@, collectEthereumLinks(HREF_RULES, doc,
                                  CandidatesOf(doc, scans[s].root), 1), cfg)]
  /\ observing' = (observing \/ (scans[s].root = BodyRoot /\ scans'[s].pc = "done"))
  /\ UNCHANGED <<doc, pendingRoots, debounceTimer, writes>>
  /\ UNCHANGED otherVars

\* The document after the loop of processRoot.
Replaced(d, st) == [d EXCEPT !.anchors = st.anchors]

\* processRoot from the return of resolveAddresses to its end (lines 320-327).
Replace(s) ==
  /\ s <= Len(scans)
  /\ scans[s].pc = "resolve"
  /\ \E nameMap \in NameMapsFor(AddressSetOf(scans[s].links)) :
       IF DOMAIN nameMap = {}
       THEN UNCHANGED <<doc, writes>>
       ELSE /\ doc' = Replaced(doc, ReplaceLoop([anchors |-> doc.anchors, writes |-> writes],
                                              doc, scans[s].links, 1, nameMap, scans[s].cfg))
            /\ writes' = ReplaceLoop([anchors |-> doc.anchors, writes |-> writes],
                                     doc, scans[s].links, 1, nameMap, scans[s].cfg).writes
  /\ scans' = [scans EXCEPT ![s].pc = "done"]
  /\ observing' = (observing \/ scans[s].root = BodyRoot)
  /\ UNCHANGED <<pendingRoots, debounceTimer>>
  /\ UNCHANGED otherVars

\* The observer callback (lines 335-354) for one record: the added node, if
\* any, joins pendingRoots and the timer is set anew.
Callback(seen, added) ==
  /\ pendingRoots' = IF seen THEN pendingRoots \o added ELSE pendingRoots
  /\ debounceTimer' = (debounceTimer \/ seen)

\* The page inserts the container below document.body, or an anchor into
\* the container; the observer sees what happens below document.body.
PageInsert(root) ==
  /\ \/ /\ root = DivRoot
        /\ ~doc.cAttached
        /\ doc' = [doc EXCEPT !.cAttached = TRUE]
        /\ Callback(observing, IF root \in {pendingRoots[i] : i \in 1..Len(pendingRoots)}
                               THEN <<>> ELSE <<root>>)
     \/ /\ root.tag = "A"
        /\ root.id \notin doc.inC
        /\ doc' = [doc EXCEPT !.inC = @ \cup {root.id}]
        /\ Callback(observing /\ doc.cAttached,
                    IF root \in {pendingRoots[i] : i \in 1..Len(pendingRoots)}
                    THEN <<>> ELSE <<root>>)
  /\ UNCHANGED <<scans, observing, writes>>
  /\ UNCHANGED otherVars

\* The page removes the container or an anchor: a record without added
\* nodes.
PageRemove(root) ==
  /\ \/ /\ root = DivRoot
        /\ doc.cAttached
        /\ doc' = [doc EXCEPT !.cAttached = FALSE]
        /\ Callback(observing, <<>>)
     \/ /\ root.tag = "A"
        /\ root.id \in doc.inC
        /\ doc' = [doc EXCEPT !.inC = @ \ {root.id}]
        /\ Callback(observing /\ doc.cAttached, <<>>)
  /\ UNCHANGED <<scans, observing, writes>>
  /\ UNCHANGED otherVars

\* The processRoot calls of the timer callback (lines 348-352), in the order
\* of roots.
RECURSIVE ScansOf(_, _, _)
ScansOf(d, roots, i) ==
  IF i > Len(roots) THEN <<>>
  ELSE (IF InDocument(d, roots[i]) THEN <<NewScan(roots[i])>> ELSE <<>>)
         \o ScansOf(d, roots, i + 1)

\* The debounce timer fires (lines 347-353).
DebounceFires ==
  /\ debounceTimer
  /\ Len(scans) + Len(pendingRoots) <= MaxScans
  /\ scans' = scans \o ScansOf(doc, pendingRoots, 1)
  /\ pendingRoots' = <<>>
  /\ debounceTimer' = FALSE
  /\ UNCHANGED <<doc, observing, writes>>
  /\ UNCHANGED otherVars

\* The href and the text of the anchors of the page.
PathTo(addr) == GoodOrigin \o SlashAddress \o addr

ShortText == <<"0", "x", "A", "b">>

PageAnchors ==
  <<[href |-> PathTo(AddrLow), nodes |-> <<ShortText>>, done |-> FALSE]>>

\* The nodes the page inserts and removes.
MutableRoots == {DivRoot} \cup {ARoot(a) : a \in 1..Len(PageAnchors)}

\* The content script has started in the top frame: processRoot(document.body)
\* has been called (line 364), the observer is not attached yet.
InitScan ==
  /\ WorkerInit({c \in ConcConfigs : c.cacheEnabled})
  /\ CodecOff
  /\ EncoderOff
  /\ PickerOff
  /\ StoreOff
  /\ ReplaceOff
  /\ RulesOff
  /\ OptionsOff
  /\ pickedAgain = <<>>
  /\ doc \in [anchors : {PageAnchors}, inC : SUBSET (1..Len(PageAnchors)),
              cAttached : BOOLEAN]
  /\ scans = <<NewScan(BodyRoot)>>
  /\ pendingRoots = <<>>
  /\ debounceTimer = FALSE
  /\ observing = FALSE
  /\ writes = [a \in 1..Len(PageAnchors) |-> 0]

NextScan ==
  \/ \E s \in 1..MaxScans, cfg \in ScanConfigs : Collect(s, cfg)
  \/ \E s \in 1..MaxScans : Replace(s)
  \/ \E root \in MutableRoots : PageInsert(root)
  \/ \E root \in MutableRoots : PageRemove(root)
  \/ DebounceFires

SpecScan == InitScan /\ [][NextScan]_vars

\* An abbreviated address whose digits are those of AddrLow.
AbbrText == <<"0", "x", "a", "a", "a", "a", ".", ".", "A", "A", "A", "A">>

\* Hrefs without a full address (none, 39 and 41 hex digits after 0x), with
\* one and with two.
CollectHrefs ==
  {<<>>,
   PathTo(AddrBad),
   PathTo(AddrLow \o <<"a">>),
   PathTo(AddrLow),
   PathTo(AddrLow) \o QueryA \o AddrB}

\* The anchors below the root of a scan; one carries the attribute already.
CollectAnchors ==
  [href : CollectHrefs,
   nodes : {<<<<"l", "i", "n", "k">>>>, <<AbbrText>>, <<AddrLow>>},
   done : {FALSE}]
  \cup {[href |-> PathTo(AddrLow), nodes |-> <<NameN1>>, done |-> TRUE]}

\* A processRoot call has just been made on the body, on the container or
\* on the first anchor.
InitCollect ==
  /\ WorkerInit({c \in ConcConfigs : c.cacheEnabled})
  /\ CodecOff
  /\ EncoderOff
  /\ PickerOff
  /\ StoreOff
  /\ ReplaceOff
  /\ HREF_RULES \in {<<>>, <<[re |-> RePathAddress, group |-> 1]>>}
  /\ ruleMatch = <<>>
  /\ OptionsOff
  /\ pickedAgain = <<>>
  /\ doc \in [anchors : [1..2 -> CollectAnchors], inC : {1..2}, cAttached : {TRUE}]
  /\ scans \in {<<NewScan(root)>> : root \in {BodyRoot, DivRoot, ARoot(1)}}
  /\ pendingRoots = <<>>
  /\ debounceTimer = FALSE
  /\ observing = (scans[1].root # BodyRoot)
  /\ writes = [a \in 1..2 |-> 0]

NextCollect ==
  \/ \E s \in 1..MaxScans, cfg \in ScanConfigs : Collect(s, cfg)
  \/ \E s \in 1..MaxScans : Replace(s)

SpecCollect == InitCollect /\ [][NextCollect]_vars

\* -------------------------------------------------------- options page
\* A JS number of the options page: an integer, or NaN.
Num(v) == [nan |-> FALSE, v |-> v]

NotANumber == [nan |-> TRUE, v |-> 0]

Digits == <<"0", "1", "2", "3", "4", "5", "6", "7", "8", "9">>

DigitSet == {Digits[i] : i \in 1..10}

DigitValue(c) == (CHOOSE i \in 1..10 : Digits[i] = c) - 1

\* The value of a run of decimal digits.
RECURSIVE Decimal(_)
Decimal(ds) ==
  IF ds = <<>> THEN 0
  ELSE 10 * Decimal(SubSeq(ds, 1, Len(ds) - 1)) + DigitValue(ds[Len(ds)])

\* parseInt(str, 10): white space, a sign, and the longest run of digits.
parseInt(str) ==
  LET inked == {i \in 1..Len(str) : str[i] \notin WhiteSpace}
      s == IF inked = {} THEN Len(str) + 1 ELSE Least(inked)
      signed == s <= Len(str) /\ str[s] \in {"-", "+"}
      d == IF signed THEN s + 1 ELSE s
      n == RunLength(str, DigitSet, d)
      v == Decimal(SubSeq(str, d, d + n - 1))
  IN IF n = 0 THEN NotANumber
     ELSE Num(IF signed /\ str[s] = "-" THEN 0 - v ELSE v)

Max(a, b) == IF a >= b THEN a ELSE b

Min(a, b) == IF a <= b THEN a ELSE b

DefaultRpcUrl == <<"h", "t", "t", "p", "s", ":", "/", "/", "e", "t", "h", ".", "l", "l", "a", "m", "a", "r", "p", "c", ".", "c", "o", "m">>

DefaultMaxBatchSize == 50

DefaultRpcCooldownMs == 2000

\* isValidRpcUrl (lines 24-28)
isValidRpcUrl(url) ==
  \/ StartsWith(url, <<"h", "t", "t", "p", "s", ":", "/", "/">>)
  \/ StartsWith(url, <<"h", "t", "t", "p", ":", "/", "/", "l", "o", "c", "a", "l", "h", "o", "s", "t">>)
  \/ StartsWith(url, <<"h", "t", "t", "p", ":", "/", "/", "1", "2", "7", ".", "0", ".", "0", ".", "1">>)

\* Character i of the pattern p is not escaped by a backslash.
Unescaped(p, i) == i = 1 \/ p[i - 1] # "\\"

\* The number of groups open after character i of the pattern p.
Depth(p, i) ==
  Cardinality({j \in 1..i : p[j] = "(" /\ Unescaped(p, j)})
    - Cardinality({j \in 1..i : p[j] = ")" /\ Unescaped(p, j)})

\* new RegExp(pattern) throws, for the syntax errors the patterns of the
\* model can have: a group that is not closed or not opened, and a
\* quantifier with nothing to repeat.
RegExpThrows(p) ==
  \/ \E i \in 1..Len(p) : Depth(p, i) < 0
  \/ Len(p) > 0 /\ Depth(p, Len(p)) # 0
  \/ \E i \in 1..Len(p) :
       /\ p[i] \in {"*", "+"}
       /\ Unescaped(p, i)
       /\ \/ i = 1
          \/ p[i - 1] \in {"(", "|", "*", "+"} /\ Unescaped(p, i - 1)

\* Positions i and j hold a group ( ... ) with no ) inside and a quantifier
\* behind it.
QuantifiedGroup(p, i, j) ==
  /\ i < j
  /\ j + 1 <= Len(p)
  /\ p[i] = "("
  /\ p[j] = ")"
  /\ \A k \in (i + 1)..(j - 1) : p[k] # ")"
  /\ p[j + 1] \in {"+", "*"}

\* /(\([^)]*[+*][^)]*\))[+*]|\(\?:[^)]*[+*][^)]*\)[+*]/.test(pattern)
\* (line 38)
NestedQuantifier(p) ==
  \E i \in 1..Len(p), j \in 1..Len(p) :
    /\ QuantifiedGroup(p, i, j)
    /\ \E k \in (i + 1)..(j - 1) : p[k] \in {"+", "*"}

\* The starts of the matches of /\(([^)]*\|[^)]*)\)[+*]/   (lines 42-43)
AlternationStarts(p) ==
  {i \in 1..Len(p) :
     \E j \in 1..Len(p) :
       /\ QuantifiedGroup(p, i, j)
       /\ \E k \in (i + 1)..(j - 1) : p[k] = "|"}

RegexSpecials == {"\\", "^", "$", ".", "*", "+", "?", "(", ")", "[", "]", "{", "}", "|"}

NotSpecial(c) == c \notin RegexSpecials

\* inner[1].split('|').map(s => s.replace(/[\\^$.*+?()[\]{}|]/g, ''))
\* for the group that starts at i   (line 45)
Alternatives(p, i) ==
  LET j == Least({k \in (i + 1)..Len(p) : p[k] = ")"})
      parts == Split(SubSeq(p, i + 1, j - 1), "|")
  IN [k \in 1..Len(parts) |-> SelectSeq(parts[k], NotSpecial)]

\* detectReDoS (lines 35-53): TRUE when a reason string is returned.
detectReDoS(p) ==
  \/ NestedQuantifier(p)
  \/ /\ AlternationStarts(p) # {}
     /\ Cardinality({Alternatives(p, Least(AlternationStarts(p)))[k] :
                       k \in 1..Len(Alternatives(p, Least(AlternationStarts(p))))})
          < Len(Alternatives(p, Least(AlternationStarts(p))))

\* The validation of one pattern field (lines 140-151, 170-178).
PatternRejected(p) == RegExpThrows(p) \/ detectReDoS(p)

\* The hrefRules field after JSON.parse: text that is no JSON, a JSON value
\* that is no array, or an array of entries.
JsonInvalid == [json |-> "invalid", entries |-> <<>>]

JsonObject == [json |-> "object", entries |-> <<>>]

JsonArray(es) == [json |-> "array", entries |-> es]

NoRules == [json |-> "empty", entries |-> <<>>]

RuleEntry(p) == [kind |-> "object", pattern |-> [typeof |-> "string", value |-> p]]

\* !entry || typeof entry.pattern !== 'string'   (line 166)
EntryMalformed(e) == e.kind = "null" \/ e.pattern.typeof # "string"

\* The validation of the hrefRules field (lines 154-180).
HrefRulesRejected(h) ==
  /\ h.json # "empty"
  /\ \/ h.json # "array"
     \/ \E i \in 1..Len(h.entries) :
          \/ EntryMalformed(h.entries[i])
          \/ PatternRejected(h.entries[i].pattern.value)

\* A save handler that checks the syntax of the patterns only.
RejectedSyntaxOnly(f) ==
  \/ ~isValidRpcUrl(IF trim(f.rpcUrl) = <<>> THEN DefaultRpcUrl ELSE trim(f.rpcUrl))
  \/ trim(f.ethRe) # <<>> /\ RegExpThrows(trim(f.ethRe))
  \/ trim(f.abbrRe) # <<>> /\ RegExpThrows(trim(f.abbrRe))
  \/ /\ f.hrefRules.json # "empty"
     /\ \/ f.hrefRules.json # "array"
        \/ \E i \in 1..Len(f.hrefRules.entries) :
             \/ EntryMalformed(f.hrefRules.entries[i])
             \/ RegExpThrows(f.hrefRules.entries[i].pattern.value)

\* The save handler returns with showError (lines 121-124, 140-180).
Rejected(f) ==
  \/ ~isValidRpcUrl(IF trim(f.rpcUrl) = <<>> THEN DefaultRpcUrl ELSE trim(f.rpcUrl))
  \/ trim(f.ethRe) # <<>> /\ PatternRejected(trim(f.ethRe))
  \/ trim(f.abbrRe) # <<>> /\ PatternRejected(trim(f.abbrRe))
  \/ HrefRulesRejected(f.hrefRules)

\* Math.max(1, Math.min(500, parseInt(value, 10) || WNS_DEFAULTS.maxBatchSize))
\* (line 130)
SavedMaxBatchSize(text) ==
  Max(1, Min(500, IF parseInt(text).nan \/ parseInt(text).v = 0
                  THEN DefaultMaxBatchSize ELSE parseInt(text).v))

\* Math.max(0, Math.min(30000, Number.isNaN(raw) ? WNS_DEFAULTS.rpcCooldownMs : raw))
\* (lines 131-132)
SavedRpcCooldownMs(text) ==
  Max(0, Min(30000, IF parseInt(text).nan
                    THEN DefaultRpcCooldownMs ELSE parseInt(text).v))

\* const configData = {...}   (line 184), for the fields the handler
\* computes or checks; the other fields are copied from the form.
ConfigData(f) ==
  [rpcUrl |-> IF trim(f.rpcUrl) = <<>> THEN DefaultRpcUrl ELSE trim(f.rpcUrl),
   maxBatchSize |-> SavedMaxBatchSize(f.maxBatchSize),
   rpcCooldownMs |-> SavedRpcCooldownMs(f.rpcCooldownMs),
   hrefRules |-> f.hrefRules,
   ethRe |-> trim(f.ethRe),
   abbrRe |-> trim(f.abbrRe)]

\* The texts of the fields.
RpcUrlTexts ==
  {<<>>, <<" ", "h", "t", "t", "p", "s", ":", "/", "/", "x", ".", "i", "o", " ">>, <<"h", "t", "t", "p", ":", "/", "/", "x", ".", "i", "o">>, <<"h", "t", "t", "p", ":", "/", "/", "l", "o", "c", "a", "l", "h", "o", "s", "t", ":", "8", "5", "4", "5">>}

BatchTexts == {<<>>, <<"0">>, <<"1">>, <<"5", "0", "0">>, <<"5", "0", "1">>, <<"-", "5">>, <<"7", "x">>}

CooldownTexts == {<<>>, <<"0">>, <<"3", "0", "0", "0", "0">>, <<"3", "0", "0", "0", "1">>, <<"-", "1">>}

EthReTexts == {<<>>, <<"0", "x", "\\", "w", "+">>, <<"(", "0", "x", "+", ")", "+">>, <<"(", "0", "x">>, <<"(", "a", "|", "b", ")", "+">>}

AbbrReTexts == {<<>>, <<"(", "a", "|", "a", ")", "*">>, <<"*", "a">>}

HrefRuleTexts ==
  {NoRules,
   JsonInvalid,
   JsonObject,
   JsonArray(<<RuleEntry(<<"a", "=", "(", "\\", "w", "+", ")">>)>>),
   JsonArray(<<RuleEntry(<<"a", "=", "(", "\\", "w", "+", ")">>), RuleEntry(<<"(", "?", ":", "a", "*", ")", "*">>)>>),
   JsonArray(<<RuleEntry(<<"a", ")">>)>>),
   JsonArray(<<[kind |-> "object", pattern |-> [typeof |-> "undefined", value |-> <<>>]]>>),
   JsonArray(<<[kind |-> "null", pattern |-> [typeof |-> "undefined", value |-> <<>>]]>>)}

Forms ==
  [rpcUrl : RpcUrlTexts, maxBatchSize : BatchTexts, rpcCooldownMs : CooldownTexts,
   ethRe : EthReTexts, abbrRe : AbbrReTexts, hrefRules : HrefRuleTexts,
   useSync : BOOLEAN]

\* The configuration an earlier save has stored.
OldConfig ==
  [rpcUrl |-> DefaultRpcUrl,
   maxBatchSize |-> DefaultMaxBatchSize,
   rpcCooldownMs |-> DefaultRpcCooldownMs,
   hrefRules |-> NoRules,
   ethRe |-> <<>>,
   abbrRe |-> <<>>]

\* chrome.storage.local with its useSync flag and chrome.storage.sync: the
\* area the flag names holds the stored configuration.
StoredAreas ==
  {[useSync |-> u,
    local |-> IF u THEN <<>> ELSE <<OldConfig>>,
    sync |-> IF u THEN <<OldConfig>> ELSE <<>>] : u \in BOOLEAN}

InitOptions ==
  /\ WorkerInit({c \in ConcConfigs : c.cacheEnabled})
  /\ CodecOff
  /\ EncoderOff
  /\ PickerOff
  /\ StoreOff
  /\ ReplaceOff
  /\ RulesOff
  /\ form \in Forms
  /\ areas \in StoredAreas
  /\ configData = <<>>
  /\ sentClear = 0
  /\ status = ""
  /\ savePc = "idle"
  /\ ScanOff

optRest ==
  <<workerVars, codecVars, encVars, pickVars, storeVars, replVars, ruleVars,
    scanVars>>

\* The click on Save up to the first await (lines 117-187): the fields are
\* checked, configData is built and the useSync flag is asked for.
SaveClick ==
  /\ savePc = "idle"
  /\ IF Rejected(form)
     THEN /\ status' = "error"
          /\ savePc' = "returned"
          /\ UNCHANGED configData
     ELSE /\ configData' = <<ConfigData(form)>>
          /\ savePc' = "getFlag"
          /\ UNCHANGED status
  /\ UNCHANGED <<form, areas, sentClear>>
  /\ UNCHANGED optRest

\* The flag arrives; with a changed useSync the configuration keys of the
\* old area are removed (lines 187-192).
SaveGetFlag ==
  /\ savePc = "getFlag"
  /\ savePc' = IF form.useSync # areas.useSync THEN "removeOld" ELSE "setFlag"
  /\ UNCHANGED <<form, areas, configData, sentClear, status>>
  /\ UNCHANGED optRest

\* oldStore.remove(Object.keys(WNS_DEFAULTS)) settles (line 191).
SaveRemoveOld ==
  /\ savePc = "removeOld"
  /\ areas' = IF areas.useSync THEN [areas EXCEPT !.sync = <<>>]
              ELSE [areas EXCEPT !.local = <<>>]
  /\ savePc' = "setFlag"
  /\ UNCHANGED <<form, configData, sentClear, status>>
  /\ UNCHANGED optRest

\* chrome.storage.local.set({ useSync }) settles (line 195).
SaveSetFlag ==
  /\ savePc = "setFlag"
  /\ areas' = [areas EXCEPT !.useSync = form.useSync]
  /\ savePc' = "setConfig"
  /\ UNCHANGED <<form, configData, sentClear, status>>
  /\ UNCHANGED optRest

\* setConfig(configData) settles: the active area has the new values, and
\* CLEAR_CACHE is sent (lines 198-200; config.js lines 40-43).
SaveSetConfig ==
  /\ savePc = "setConfig"
  /\ areas' = IF areas.useSync THEN [areas EXCEPT !.sync = configData]
              ELSE [areas EXCEPT !.local = configData]
  /\ sentClear' = sentClear + 1
  /\ savePc' = "sent"
  /\ UNCHANGED <<form, configData, status>>
  /\ UNCHANGED optRest

\* The response callback of CLEAR_CACHE (lines 200-202).
SaveAcknowledged ==
  /\ savePc = "sent"
  /\ status' = "saved"
  /\ savePc' = "returned"
  /\ UNCHANGED <<form, areas, configData, sentClear>>
  /\ UNCHANGED optRest

NextOptions ==
  \/ SaveClick
  \/ SaveGetFlag
  \/ SaveRemoveOld
  \/ SaveSetFlag
  \/ SaveSetConfig
  \/ SaveAcknowledged

SpecOptions == InitOptions /\ [][NextOptions]_vars

\* ------------------------------------------------------------ properties
Abs(x) == IF x < 0 THEN 0 - x ELSE x

\* The lowercase addresses of a list.
LowerSet(addrs) == {toLowerCase(addrs[i]) : i \in 1..Len(addrs)}

\* The lowercase addresses request r has sent to the transport so far.
SentAddrs(r) == UNION {LowerSet(rpcLog[r][j].chunk) : j \in 1..Len(rpcLog[r])}

\* Request r runs with the cache enabled and has done its cache read.
PastRead(r) ==
  /\ pc[r] \in {"fetch", "cacheWrite", "resolved", "rejected"}
  /\ conf[r].cacheEnabled

\* The cache read of request r found an entry for address a that was fresh.
FreshHit(r, a) ==
  /\ cacheKey(a) \in DOMAIN cached[r]
  /\ readNow[r] - cached[r][cacheKey(a)].t < conf[r].cacheTtlMs

NegativeHit(r, a) == FreshHit(r, a) /\ cached[r][cacheKey(a)].n = Null

PositiveHit(r, a) == FreshHit(r, a) /\ cached[r][cacheKey(a)].n \in Names

\* C1: the transport calls of two different RESOLVE requests start at least
\* rpcCooldownMs apart, however the steps of the requests interleave.
C1_CooldownBetweenRequests ==
  \A r1 \in Req, r2 \in Req :
    r1 # r2 =>
      \A i \in 1..Len(rpcLog[r1]), j \in 1..Len(rpcLog[r2]) :
        Abs(rpcLog[r1][i].t - rpcLog[r2][j].t) >= stored.rpcCooldownMs

\* C2: with the cache enabled, an address whose cache entry is a fresh
\* negative entry ({n: null, t} with now - t < cacheTtl) at the cache read of
\* a call is in no transport call of that call and is absent from its mapping.
C2_NegativeCacheHit ==
  \A r \in Req :
    PastRead(r) =>
      \A i \in 1..Len(addresses[r]) :
        NegativeHit(r, addresses[r][i]) =>
          /\ toLowerCase(addresses[r][i]) \notin SentAddrs(r)
          /\ toLowerCase(addresses[r][i]) \notin DOMAIN results[r]

\* A call has returned having met a fresh negative entry that an earlier call
\* wrote (the cache starts empty).
C2_Witness ==
  \E r \in Req :
    /\ pc[r] = "resolved"
    /\ conf[r].cacheEnabled
    /\ \E i \in 1..Len(addresses[r]) : NegativeHit(r, addresses[r][i])

\* An address set: a list that names no address twice, in any spelling.
NoDuplicate(addrs) ==
  \A i \in 1..Len(addrs), j \in 1..Len(addrs) :
    i # j => toLowerCase(addrs[i]) # toLowerCase(addrs[j])

\* Calls r1 and r2 are consecutive calls for the same address set, r1 has
\* responded, r2 runs with the cache enabled and has read the cache, and every
\* entry r2 found for the set is still within the TTL.
SameSetTwice(r1, r2) ==
  /\ r2 = r1 + 1
  /\ pc[r1] = "done"
  /\ Len(addresses[r1]) > 0
  /\ NoDuplicate(addresses[r1])
  /\ NoDuplicate(addresses[r2])
  /\ PastRead(r2)
  /\ LowerSet(addresses[r1]) = LowerSet(addresses[r2])
  /\ \A i \in 1..Len(addresses[r2]) :
       cacheKey(addresses[r2][i]) \in DOMAIN cached[r2] => FreshHit(r2, addresses[r2][i])

\* The second call makes no transport call and returns the mapping of the first.
SecondFromCache(r1, r2) ==
  /\ rpcLog[r2] = <<>>
  /\ pc[r2] = "resolved" => results[r2] = responses[r1][1].names

HitPairs(r) ==
  IF conf[r].cacheEnabled
  THEN {<<toLowerCase(addresses[r][i]), cached[r][cacheKey(addresses[r][i])].n>> :
          i \in {i \in 1..Len(addresses[r]) : PositiveHit(r, addresses[r][i])}}
  ELSE {}

\* The positive names decoded from the j-th transport call of request r.
DecodedPairs(r, j) ==
  LET chunk == rpcLog[r][j].chunk
      o == rpcOutcome[r][j]
  IN IF o.kind # "result" THEN {}
     ELSE {<<toLowerCase(chunk[i]), o.names[i]>> :
             i \in {i \in 1..Len(chunk) : i <= Len(o.names) /\ o.names[i] \in Names}}

AllDecodedPairs(r) == UNION {DecodedPairs(r, j) : j \in 1..Len(rpcOutcome[r])}

\* The misses of request r: its addresses without a fresh cache entry.
SelectMisses(r, addrs) ==
  LET IsMiss(a) == ~FreshHit(r, a) IN SelectSeq(addrs, IsMiss)

MissList(r) ==
  IF conf[r].cacheEnabled THEN SelectMisses(r, addresses[r]) ELSE addresses[r]

\* A transport call that failed or brought no usable result.
Unusable(o) ==
  \/ o.kind \in {"fetchReject", "jsonReject", "noResult"}
  \/ o.kind = "result" /\ o.names = <<>>

\* The step in which the transport call in flight of request r settles.
SettleStep(r) == pc[r] = "fetch" /\ Len(rpcOutcome'[r]) = Len(rpcOutcome[r]) + 1

\* Key k holds the same entry, or no entry, before and after the step.
EntryUnchanged(k) ==
  /\ k \in DOMAIN cache' <=> k \in DOMAIN cache
  /\ k \in DOMAIN cache => cache'[k] = cache[k]

\* C4: when the transport call of a chunk fails or returns no usable result,
\* no cache entry of an address of that chunk is written or overwritten.
C4_FailedChunkNotCached ==
  [][\A r \in Req :
       (SettleStep(r) /\ Unusable(rpcOutcome'[r][Len(rpcOutcome'[r])]))
         => \A i \in 1..Len(chunks[r][chunkIdx[r]]) :
              EntryUnchanged(cacheKey(chunks[r][chunkIdx[r]][i]))]_vars

\* C5: when the transport call of one chunk fails, the mapping sent for the
\* request still holds every positive cache hit and every positive name the
\* other chunks of the request brought.
C5_FailureKeepsSiblings ==
  [][\A r \in Req :
       (pc[r] = "rejected" /\ pc'[r] = "done")
         => \A p \in HitPairs(r) \cup AllDecodedPairs(r) :
              p[1] \in DOMAIN responses'[r][Len(responses'[r])].names]_vars

Ceil(m, b) == (m + b - 1) \div b

RECURSIVE Concat(_)
Concat(ss) == IF ss = <<>> THEN <<>> ELSE Head(ss) \o Concat(Tail(ss))

SentChunks(r) == [j \in 1..Len(rpcLog[r]) |-> rpcLog[r][j].chunk]

\* C6: a call in which no transport call fails issues exactly
\* ceil(m / maxBatchSize) transport calls for its m misses, each with at most
\* maxBatchSize addresses, and the chunks in issue order make up the miss list.
C6_Chunking ==
  \A r \in Req :
    pc[r] = "resolved" =>
      /\ Len(rpcLog[r]) = Ceil(Len(MissList(r)), conf[r].maxBatch)
      /\ \A j \in 1..Len(rpcLog[r]) : Len(rpcLog[r][j].chunk) <= conf[r].maxBatch
      /\ Concat(SentChunks(r)) = MissList(r)

\* A call has returned after two transport calls.
C6_Witness ==
  \E r \in Req : pc[r] = "resolved" /\ Len(rpcLog[r]) = 2 /\ conf[r].maxBatch = 1

\* C7: consecutive transport calls of one request start at least
\* rpcCooldownMs apart.
C7_CooldownBetweenChunks ==
  \A r \in Req :
    \A j \in 1..Len(rpcLog[r]) :
      j > 1 => rpcLog[r][j].t - rpcLog[r][j - 1].t >= stored.rpcCooldownMs

\* C8: the mapping resolveAddresses returns is exactly the union of the
\* positive fresh cache hits and the positive names decoded from the transport
\* results of the call; it holds no null or empty name.
C8_ResultIsUnion ==
  \A r \in Req :
    pc[r] = "resolved" =>
      /\ \A k \in DOMAIN results[r] :
           /\ results[r][k] \in Names
           /\ <<k, results[r][k]>> \in HitPairs(r) \cup AllDecodedPairs(r)
      /\ \A p \in HitPairs(r) \cup AllDecodedPairs(r) : p[1] \in DOMAIN results[r]

\* A call has returned a mapping made of a cache hit and a fresh name.
C8_Witness ==
  \E r \in Req :
    /\ pc[r] = "resolved"
    /\ HitPairs(r) # {}
    /\ AllDecodedPairs(r) # {}
    /\ Cardinality(DOMAIN results[r]) = 2

\* The cache read of request r found an entry for address a that had expired.
StaleEntry(r, a) ==
  /\ cacheKey(a) \in DOMAIN cached[r]
  /\ readNow[r] - cached[r][cacheKey(a)].t >= conf[r].cacheTtlMs

\* The names the transport call in flight brought for lowercase address k.
NamesFor(chunk, o, k) ==
  {o.names[i] : i \in {i \in 1..Len(chunk) :
                         /\ toLowerCase(chunk[i]) = k
                         /\ o.kind = "result"
                         /\ i <= Len(o.names)
                         /\ o.names[i] \in Names}}

\* C9: an expired entry is treated like an absent one: its address is a miss
\* and goes to the transport, a name in the result comes from the transport
\* and not from the entry, and after a successful transport call the entry
\* holds the new name (or null) and the time of the write.
C9_StaleIsMiss ==
  \A r \in Req :
    PastRead(r) =>
      \A i \in 1..Len(addresses[r]) :
        LET a == addresses[r][i]
            k == toLowerCase(a)
        IN StaleEntry(r, a) =>
             /\ \E j \in 1..Len(uncached[r]) : uncached[r][j] = a
             /\ pc[r] = "resolved" => k \in SentAddrs(r)
             /\ k \in DOMAIN results[r] => <<k, results[r][k]>> \in AllDecodedPairs(r)
             /\ (pc[r] = "cacheWrite" /\ k \in LowerSet(chunks[r][chunkIdx[r]])) =>
                  LET o == rpcOutcome[r][Len(rpcOutcome[r])]
                      ns == NamesFor(chunks[r][chunkIdx[r]], o, k)
                  IN /\ cache[cacheKey(a)].t = now
                     /\ IF ns = {} THEN cache[cacheKey(a)].n = Null
                        ELSE cache[cacheKey(a)].n \in ns

\* An expired entry with a name has been overwritten after a transport call
\* that brought another name or none.
C9_Witness ==
  \E r \in Req :
    /\ pc[r] = "cacheWrite"
    /\ conf[r].cacheEnabled
    /\ \E i \in 1..Len(addresses[r]) :
         /\ StaleEntry(r, addresses[r][i])
         /\ cached[r][cacheKey(addresses[r][i])].n \in Names
         /\ cache[cacheKey(addresses[r][i])].n # cached[r][cacheKey(addresses[r][i])].n
         /\ cache[cacheKey(addresses[r][i])].t = now

\* C10: every RESOLVE message eventually receives exactly one response
\* {names: mapping}, also when the transport call or the parsing fails.
C10_EveryResolveAnswered ==
  \A r \in Req :
    /\ [](pc[r] # "idle" => <>(Len(responses[r]) = 1))
    /\ [](Len(responses[r]) <= 1)
    /\ [](\A i \in 1..Len(responses[r]) :
            \A k \in DOMAIN responses[r][i].names : responses[r][i].names[k] \in Names)

\* A request whose transport call failed has its one response.
C10_Witness ==
  \E r \in Req :
    /\ pc[r] = "done"
    /\ Len(responses[r]) = 1
    /\ responses[r][1].site = "catch"

\* C11: every address passed to the encoder and the transport matches
\* ^0x[0-9a-fA-F]{40}$, and a RESOLVE message without a valid address is
\* answered {names: {}} in the handler itself, with no cooldown wait, no
\* cache access and no transport call.
C11_OnlyValidAddressesSent ==
  /\ [](\A r \in Req :
          /\ \A i \in 1..Len(addresses[r]) : VALID_ADDR(addresses[r][i])
          /\ \A j \in 1..Len(rpcLog[r]) :
               \A i \in 1..Len(rpcLog[r][j].chunk) : VALID_ADDR(rpcLog[r][j].chunk[i]))
  /\ [][\A r \in Req :
          (pc[r] = "idle" /\ pc'[r] # "idle" /\ addresses'[r] = <<>>)
            => /\ pc'[r] = "done"
               /\ responses'[r] = <<[names |-> EmptyMap, site |-> "sync"]>>
               /\ rpcLog'[r] = <<>>
               /\ UNCHANGED <<now, lastRpcTime, cache, wakeAt>>]_vars

\* One request was answered in the handler for want of a valid address, and
\* another has made a transport call.
C11_Witness ==
  \E r1 \in Req, r2 \in Req :
    /\ pc[r1] = "done"
    /\ addresses[r1] = <<>>
    /\ responses[r1] = <<[names |-> EmptyMap, site |-> "sync"]>>
    /\ Len(rpcLog[r2]) > 0

\* ------------------------------------------------ properties of the decoder
\* The denylist: C0 and C1 controls, U+200B-200F, U+202A-202E, U+2060-2069
\* and U+FEFF.
InDenylist(u) ==
  \/ u <= 31
  \/ u >= 127 /\ u <= 159
  \/ u >= 8203 /\ u <= 8207
  \/ u >= 8234 /\ u <= 8238
  \/ u >= 8288 /\ u <= 8297
  \/ u = 65279

\* The name a text must come out as: its first 64 characters after the
\* denylist is stripped, null when nothing is left.
CleanName(text) ==
  LET Ok(u) == ~InDenylist(u)
      kept == SelectSeq(text, Ok)
  IN IF kept = <<>> THEN JsNull
     ELSE JsStr(SubSeq(kept, 1, IF Len(kept) > 64 THEN 64 ELSE Len(kept)))

\* The entry a slot must decode to: null for a slot with success flag other
\* than 1, without return bytes, with an empty string or with bytes that are
\* no UTF-8, and its own name otherwise.
OwnName(slot) ==
  IF slot.success # 1 \/ slot.form = "empty" \/ slot.text = <<>> THEN JsNull
  ELSE CleanName(slot.text)

DecodeDone == rvPc \in {"attribute", "thrown", "returned"}

\* The reply carries all its data.
Whole == damage.kind \in {"none", "no0x", "offsetOut"}

\* C12: decodeAggregate3 never throws; for a payload declaring n slots it
\* returns n entries, null for a bad slot (here also a first slot whose
\* offset points past the data) and its own name for every other slot; a
\* missing or empty payload or a declared length of zero gives the empty list.
C12_DecoderTotal ==
  DecodeDone =>
    /\ decoded.status = "returned"
    /\ damage.kind \in {"missing", "empty", "only0x"} => decoded.names = <<>>
    /\ (Whole \/ damage.kind = "truncated") => Len(decoded.names) = Len(rpcSlots)
    /\ Whole =>
         \A i \in 1..Len(rpcSlots) :
           decoded.names[i] =
             IF i = 1 /\ damage.kind = "offsetOut" THEN JsNull
             ELSE OwnName(rpcSlots[i])

\* The hex digits of the padded string of a slot.
PaddedChars(slot) == Len(PaddedHex(slot.bytes))

\* The last slot of the reply holds a string whose length word is there and
\* declares more bytes than the reply still has.
LastSlotTruncated ==
  /\ damage.kind = "truncated"
  /\ rpcSlots # <<>>
  /\ LET slot == rpcSlots[Len(rpcSlots)]
     IN /\ slot.success = 1
        /\ slot.form = "string"
        /\ damage.cut <= PaddedChars(slot)
        /\ 2 * Len(slot.bytes) > PaddedChars(slot) - damage.cut

\* C13: a slot whose declared string length is larger than the number of
\* bytes present after the length word decodes to null, never to a shortened
\* name.
C13_TruncatedSlotIsNull ==
  (DecodeDone /\ decoded.status = "returned" /\ LastSlotTruncated)
    => decoded.names[Len(rpcSlots)] = JsNull

\* C14: every name that leaves the decoder holds no character of the
\* denylist, is not empty and not longer than 64, and for a reply with all
\* its data it is the first at most 64 characters of the stripped text of its
\* slot, null when nothing is left.
C14_NamesSanitized ==
  (DecodeDone /\ decoded.status = "returned") =>
    /\ \A i \in 1..Len(decoded.names) :
         ~decoded.names[i].null =>
           /\ Len(decoded.names[i].text) \in 1..64
           /\ \A j \in 1..Len(decoded.names[i].text) :
                ~InDenylist(decoded.names[i].text[j])
    /\ damage.kind \in {"none", "no0x"} =>
         \A i \in 1..Len(rpcSlots) :
           (rpcSlots[i].success = 1 /\ rpcSlots[i].form = "string"
              /\ rpcSlots[i] # SlotBadUtf8)
             => decoded.names[i] = CleanName(rpcSlots[i].text)
    /\ rvPc = "returned" => \A k \in DOMAIN rvResults : rvResults[k] # ""

\* A name with a zero-width character and a name longer than 64 characters
\* have been decoded, and a text of denied characters only has given null.
C14_Witness ==
  /\ rvPc = "returned"
  /\ damage.kind = "none"
  /\ \E i \in 1..Len(rpcSlots) :
       rpcSlots[i] \in {SlotZeroWidth, SlotLong} /\ ~decoded.names[i].null
  /\ \E a \in {SlotZeroWidth, SlotLong, SlotControlOnly} :
       \E i \in 1..Len(rpcSlots) :
         rpcSlots[i] = a /\ Len(decoded.names[i].text) < Len(a.text)

\* The JS strings of the decoded entries.
DecodedStrings == [i \in 1..Len(decoded.names) |-> JsString(decoded.names[i])]

\* Position i of the chunk has a slot with a name.
Named(i) == i <= Len(decoded.names) /\ ~decoded.names[i].null

\* C15: positions are preserved: slot i of the payload decodes to the name
\* of slot i of the reply, every name in the result Map is the name of a slot
\* at the position of its address, the name of slot i is the name of
\* lowercase(a_i) (of the last such slot, when the chunk repeats an address),
\* and an address past the end of the payload gets no name.
C15_PositionsPreserved ==
  rvPc = "returned" =>
    /\ damage.kind \in {"none", "no0x"} =>
         \A i \in 1..Len(rpcSlots) : decoded.names[i] = OwnName(rpcSlots[i])
    /\ \A k \in DOMAIN rvResults :
         \E i \in 1..Len(rvAddresses) :
           /\ Named(i)
           /\ toLowerCase(rvAddresses[i]) = k
           /\ rvResults[k] = DecodedStrings[i]
    /\ \A i \in 1..Len(rvAddresses) :
         (Named(i) /\ \A j \in (i + 1)..Len(rvAddresses) :
                        ~(Named(j) /\ toLowerCase(rvAddresses[j]) = toLowerCase(rvAddresses[i])))
           => /\ toLowerCase(rvAddresses[i]) \in DOMAIN rvResults
              /\ rvResults[toLowerCase(rvAddresses[i])] = DecodedStrings[i]
    /\ \A i \in 1..Len(rvAddresses) :
         (\A j \in 1..Len(rvAddresses) :
            toLowerCase(rvAddresses[j]) = toLowerCase(rvAddresses[i]) => ~Named(j))
           => toLowerCase(rvAddresses[i]) \notin DOMAIN rvResults

\* Two different names have been attributed to two different addresses in
\* the order of the slots, and a chunk longer than the payload has left its
\* last address without a name.
C15_Witness ==
  /\ rvPc = "returned"
  /\ \/ /\ Len(rvAddresses) = 2
        /\ Cardinality(DOMAIN rvResults) = 2
        /\ rvResults[toLowerCase(rvAddresses[1])] = "n2"
        /\ rvResults[toLowerCase(rvAddresses[2])] = "n1"
     \/ /\ Len(rvAddresses) = 2
        /\ Len(decoded.names) = 1
        /\ DOMAIN rvResults = {toLowerCase(rvAddresses[1])}

\* ------------------------------------------------ properties of the encoder
\* Word k (from 0) of the calldata after the outer selector.
CallWord(k) == SubSeq(calldata, 10 + k * W + 1, 10 + (k + 1) * W)

\* The number a 32-byte word holds.
WordValue(w) == IF Len(w) = W /\ LeadingDigits(w) = W THEN parseInt16(w) ELSE NaN

\* The address, lowercase, without 0x, left-padded to 32 bytes.
PaddedAddress(a) == Zeros(W - HexLen) \o SubSeq(toLowerCase(a), 3, HexLen + 2)

\* C16: for N >= 1 addresses encodeMulticall returns the outer selector
\* followed by exactly 2 + 7N words of 32 bytes: word 0 holds 32, word 1
\* holds N, offset word i holds 32N + 192i, and for each address, in input
\* order, six words: the name-service contract address, 1, 96, 36, the inner
\* selector followed by the first 28 bytes of the left-padded lowercase
\* address, then the last 4 address bytes right-padded with zeros.
C16_MulticallLayout ==
  (encPc = "returned" /\ Len(encAddresses) >= 1) =>
    LET N == Len(encAddresses)
    IN /\ SubSeq(calldata, 1, 10) = <<"0", "x", "8", "2", "a", "d", "5", "6", "c", "b">>
       /\ Len(calldata) = 10 + W * (2 + 7 * N)
       /\ WordValue(CallWord(0)) = 32
       /\ WordValue(CallWord(1)) = N
       /\ \A i \in 0..(N - 1) : WordValue(CallWord(2 + i)) = 32 * N + 192 * i
       /\ \A i \in 0..(N - 1) :
            LET t == 2 + N + 6 * i
                padded == PaddedAddress(encAddresses[i + 1])
            IN /\ CallWord(t) = PaddedAddress(WNS_CONTRACT)
               /\ WordValue(CallWord(t + 1)) = 1
               /\ WordValue(CallWord(t + 2)) = 96
               /\ WordValue(CallWord(t + 3)) = 36
               /\ CallWord(t + 4) =
                    <<"9", "a", "f", "8", "b", "7", "a", "a">> \o SubSeq(padded, 1, 56)
               /\ CallWord(t + 5) = SubSeq(padded, 57, W) \o Zeros(56)

C16_Witness ==
  /\ encPc = "returned"
  /\ Len(encAddresses) = 3
  /\ encAddresses[1] = AddrMixed
  /\ encAddresses[2] = AddrUp
  /\ encAddresses[3] = AddrB
  /\ Len(calldata) > 10

\* A batch of more than fifteen addresses: the length word and the
\* offsets need more hexadecimal digits.
LongBatchEncoded ==
  /\ encPc = "returned"
  /\ Len(encAddresses) = LongBatch
  /\ encAddresses[1] = AddrMixed
  /\ Len(calldata) > 10

\* --------------------------------------- properties of the subject address
\* The display text is an abbreviated address whose prefix and suffix match
\* candidate c.
AbbrMatches(c) ==
  LET m == AbbrReExec(pkDisplay)
      hex == SubSeq(c, 3, Len(c))
  IN /\ m.matched
     /\ StartsWith(hex, toLowerCase(m.prefix))
     /\ EndsWith(hex, toLowerCase(m.suffix))

\* The display text is a full address equal to candidate c, case ignored.
ExactMatches(c) == VALID_ETH_RE(pkDisplay) /\ toLowerCase(pkDisplay) = c

Candidates == {pkAddresses[i] : i \in 1..Len(pkAddresses)}

TextMatch == \E c \in Candidates : AbbrMatches(c) \/ ExactMatches(c)

Picked == pkPc = "picked"

\* The score of candidate c from the structure of the URL.
ScoreOf(c) == Score(URL(pkHref), c)

C18_StrictlyHighestWins ==
  (Picked /\ Len(pkAddresses) >= 2 /\ ~TextMatch /\ URL(pkHref).ok) =>
    \A c \in Candidates :
      (\A e \in Candidates \ {c} : ScoreOf(c) > ScoreOf(e)) => picked = c

\* The highest score is shared by two or more candidates.
TiedAtTop ==
  \E c \in Candidates, e \in Candidates :
    /\ c # e
    /\ ScoreOf(c) = ScoreOf(e)
    /\ \A f \in Candidates : ScoreOf(f) <= ScoreOf(c)

TopScore == CHOOSE v \in {ScoreOf(c) : c \in Candidates} :
              \A c \in Candidates : ScoreOf(c) <= v

\* C19: with no display-text match, when the highest score is shared by two
\* or more candidates, at zero or at another score, the last candidate of the
\* list is returned.
C19_TieFallsToLast ==
  (Picked /\ Len(pkAddresses) >= 2 /\ ~TextMatch /\ URL(pkHref).ok /\ TiedAtTop) =>
    picked = pkAddresses[Len(pkAddresses)]

\* C19 as the code has it: a tie at zero gives the last candidate of the
\* list, a tie at another score gives the first candidate that has it.
C19_TieAmended ==
  (Picked /\ Len(pkAddresses) >= 2 /\ ~TextMatch /\ URL(pkHref).ok /\ TiedAtTop) =>
    IF TopScore = 0 THEN picked = pkAddresses[Len(pkAddresses)]
    ELSE \E i \in 1..Len(pkAddresses) :
           /\ picked = pkAddresses[i]
           /\ ScoreOf(picked) = TopScore
           /\ \A j \in 1..(i - 1) : ScoreOf(pkAddresses[j]) < TopScore

\* C19 happens, both ways: two different candidates tied at 10, and two tied
\* at zero.
C19_Witness ==
  /\ Picked
  /\ Len(pkAddresses) = 2
  /\ pkAddresses[1] # pkAddresses[2]
  /\ ~TextMatch
  /\ URL(pkHref).ok
  /\ ScoreOf(pkAddresses[1]) = 10
  /\ ScoreOf(pkAddresses[2]) = 10
  /\ picked = pkAddresses[1]

\* C20: with two or more candidates, no display-text match and an href that
\* does not parse as a URL, the last address in extraction order is returned.
C20_UnparsedFallsToLast ==
  (Picked /\ Len(pkAddresses) >= 2 /\ ~TextMatch /\ ~URL(pkHref).ok) =>
    picked = pkAddresses[Len(pkAddresses)]

C20_Witness ==
  /\ Picked
  /\ Len(pkAddresses) = 2
  /\ pkAddresses[1] # pkAddresses[2]
  /\ ~TextMatch
  /\ ~URL(pkHref).ok
  /\ Includes(pkHref, SegAddress \o AddrUp)
  /\ picked = pkAddresses[2]

\* ---------------------------------------------- properties of the chunk loop
\* The transport calls of request r that have started and not yet settled.
InFlight(r) ==
  IF pc[r] \in {"idle", "done"} THEN 0 ELSE Len(rpcLog[r]) - Len(rpcOutcome[r])

\* A step starts a transport call of request r that is not its first.
StartsLaterCall(r) ==
  Len(rpcLog[r]) >= 1 /\ Len(rpcLog'[r]) = Len(rpcLog[r]) + 1

\* C26: the chunks of one request are processed strictly one after another:
\* the transport call of chunk k+1 starts only when the call of chunk k has
\* returned and, with the cache enabled, when the cache write of chunk k has
\* completed; a request never has two transport calls in flight.
C26_ChunksSequential ==
  /\ [](\A r \in Req :
          /\ InFlight(r) \in {0, 1}
          /\ InFlight(r) = 1 <=> pc[r] = "fetch")
  /\ [][\A r \in Req :
          StartsLaterCall(r) =>
            /\ Len(rpcOutcome'[r]) = Len(rpcLog[r])
            /\ \A j \in 1..Len(rpcLog[r]) : ~Throws(rpcOutcome'[r][j])
            /\ pc[r] = IF conf[r].cacheEnabled THEN "cacheWrite" ELSE "fetch"
            /\ rpcLog'[r][Len(rpcLog'[r])].chunk = chunks[r][Len(rpcLog[r]) + 1]]_vars

\* C26 happens: with the cache enabled the second chunk of a request is in
\* flight after the first was answered and stored.
C26_Witness ==
  \E r \in Req :
    /\ conf[r].cacheEnabled
    /\ pc[r] = "fetch"
    /\ Len(rpcLog[r]) = 2
    /\ Len(rpcOutcome[r]) = 1
    /\ cacheKey(rpcLog[r][1].chunk[1]) \in DOMAIN cache

\* ------------------------------------------- properties of the cooldown stamp
\* Request r passes line 284: the wait is over and resolveAddresses is called.
Stamps(r) == pc[r] \in {"waitForCooldown", "setTimeout"} /\ pc'[r] = "getConfig"

WrittenEntry(fr, a) ==
  [n |-> IF Truthy(MapGet(fr, toLowerCase(a))) THEN MapGet(fr, toLowerCase(a)) ELSE Null,
   t |-> now]

\* Request r has looked address a up in the cache, missed, and has sent it to
\* the transport.
MissedAndSent(r, a) ==
  /\ PastRead(r)
  /\ ~FreshHit(r, a)
  /\ toLowerCase(a) \in SentAddrs(r)

\* C27: the cache is filled without a lock.  Two concurrent requests can both
\* miss the cache for one address and both send it to the transport; each
\* write replaces the entry of the address as a whole, so the cache holds one
\* well-formed entry per address at all times, that of the last writer.
C27_UnlockedLastWriterWins ==
  /\ [](\A k \in DOMAIN cache :
          /\ k[1] = "wns_"
          /\ cache[k].n \in Names \cup {Null}
          /\ cache[k].t \in StartTime..now)
  /\ [][\A r \in Req :
          (SettleStep(r) /\ conf[r].cacheEnabled
             /\ ~Throws(rpcOutcome'[r][Len(rpcOutcome'[r])]))
            => \A i \in 1..Len(chunks[r][chunkIdx[r]]) :
                 cache'[cacheKey(chunks[r][chunkIdx[r]][i])]
                   = WrittenEntry(fresh'[r], chunks[r][chunkIdx[r]][i])]_vars

\* C27 happens: both requests missed the cache for the same address, both
\* sent it, the two calls returned different names, and the cache holds the
\* entry of the request that wrote second.
C27_Witness ==
  \E a \in {AddrUp} :
    /\ MissedAndSent(1, a)
    /\ MissedAndSent(2, a)
    /\ pc[1] = "resolved"
    /\ pc[2] = "cacheWrite"
    /\ MapGet(fresh[1], toLowerCase(a)) = "n1"
    /\ MapGet(fresh[2], toLowerCase(a)) = "n2"
    /\ cacheKey(a) \in DOMAIN cache
    /\ cache[cacheKey(a)] = [n |-> "n2", t |-> now]

\* ------------------------------------------------ properties of CLEAR_CACHE
\* The step in which remove(wnsKeys) settles and the handler responds.
ClearStep == clearPc = "remove" /\ clearPc' = "idle"

\* C22: a CLEAR_CACHE that runs with no concurrent RESOLVE removes every
\* stored key that starts with wns_, leaves every other key of the store as
\* it was, and responds with the number of keys it removed.
C22_ClearRemovesWnsKeysOnly ==
  [][ClearStep =>
       /\ \A k \in (DOMAIN cache') \cup (DOMAIN localConf') :
            ~KeyStartsWith(k, "wns_")
       /\ \A k \in (DOMAIN cache) \cup (DOMAIN localConf) :
            ~KeyStartsWith(k, "wns_") =>
              /\ k \in (DOMAIN cache') \cup (DOMAIN localConf')
              /\ k \in DOMAIN localConf => localConf'[k] = localConf[k]
              /\ k \in DOMAIN cache => cache'[k] = cache[k]
       /\ Len(cleared') = Len(cleared) + 1
       /\ cleared'[Len(cleared')]
            = Cardinality(((DOMAIN cache) \cup (DOMAIN localConf))
                            \ ((DOMAIN cache') \cup (DOMAIN localConf')))
       /\ cleared'[Len(cleared')]
            = Cardinality({k \in (DOMAIN cache) \cup (DOMAIN localConf) :
                             KeyStartsWith(k, "wns_")})]_vars

\* C22 happens: a CLEAR_CACHE has removed two cache entries, one of them
\* written by a request of this run, and the saved values are still there.
C22_Witness ==
  /\ cleared # <<>>
  /\ cleared[Len(cleared)] = 2
  /\ clearPc = "idle"
  /\ cache = EmptyMap
  /\ <<"useSync">> \in DOMAIN localConf
  /\ \E r \in Req : rpcLog[r] # <<>>

\* -------------------------------------------- properties of the key forms
\* The cache keys a step has written: new keys and keys with a new entry.
KeysWritten ==
  {k \in DOMAIN cache' : k \notin DOMAIN cache \/ cache'[k] # cache[k]}

\* C29: every key of a mapping resolveAddresses returns is the lowercase form
\* of an address of the request, every cache key a request writes is wns_
\* followed by the lowercase form of one of its addresses, and addresses
\* that differ in letter case only share one cache entry and one result key.
C29_LowercaseKeys ==
  /\ [](\A r \in Req :
          /\ DOMAIN results[r] \subseteq LowerSet(addresses[r])
          /\ \A i \in 1..Len(responses[r]) :
               DOMAIN responses[r][i].names \subseteq LowerSet(addresses[r])
          /\ \A a \in LowerSet(addresses[r]) : a = toLowerCase(a))
  /\ [](\A k \in DOMAIN cache : k[1] = "wns_" /\ k[2] = toLowerCase(k[2]))
  /\ [][\A r \in Req :
          SettleStep(r) =>
            KeysWritten \subseteq
              {<<"wns_", a>> : a \in LowerSet(chunks[r][chunkIdx[r]])}]_vars
  /\ [][(\A r \in Req : ~SettleStep(r)) =>
          (KeysWritten = {} \/ ClearStep)]_vars

\* C29 happens: a request for an address in capitals and in lowercase has
\* sent both spellings, has returned one result key and has written one
\* cache entry, both for the lowercase form.
C29_Witness ==
  \E r \in Req :
    /\ pc[r] = "resolved"
    /\ addresses[r] = <<AddrUp, AddrLow>>
    /\ rpcLog[r] # <<>>
    /\ rpcLog[r][1].chunk = <<AddrUp, AddrLow>>
    /\ DOMAIN results[r] = {AddrLow}
    /\ {k \in DOMAIN cache : cache[k].t = now} = {<<"wns_", AddrLow>>}

\* ------------------------------------------ properties of the disabled cache
\* Request r is inside resolveAddresses, past its getConfig.
InResolve(r) == pc[r] \in {"cacheRead", "fetch", "cacheWrite", "resolved", "rejected"}

\* C30: with cacheEnabled false resolveAddresses neither reads nor writes a
\* wns_ key: it never waits for a cache read or a cache write, every address
\* of the request goes to the transport, in order and with repetitions, and
\* no step of the request changes the cache.
C30_DisabledCacheUntouched ==
  /\ [](~stored.cacheEnabled =>
          \A r \in Req :
            InResolve(r) =>
              /\ pc[r] \notin {"cacheRead", "cacheWrite"}
              /\ cached[r] = EmptyMap
              /\ uncached[r] = addresses[r]
              /\ Concat([j \in 1..Len(chunks[r]) |-> chunks[r][j]]) = addresses[r]
              /\ \A j \in 1..Len(rpcLog[r]) : rpcLog[r][j].chunk = chunks[r][j]
              /\ pc[r] = "resolved" => Concat(SentChunks(r)) = addresses[r])
  /\ [][(~stored.cacheEnabled /\ ~ClearStep) => cache' = cache]_vars

\* C30 happens: with the cache disabled and a fresh entry for the address in
\* the store, a request has sent the address, has returned another name than
\* the stored one, and the stored entry is as it was.
C30_Witness ==
  \E r \in Req :
    /\ ~stored.cacheEnabled
    /\ pc[r] = "resolved"
    /\ addresses[r] = <<AddrUp, AddrLow>>
    /\ Concat(SentChunks(r)) = addresses[r]
    /\ results[r] = [k \in {AddrLow} |-> "n2"]
    /\ <<"wns_", AddrLow>> \in DOMAIN cache
    /\ cache[<<"wns_", AddrLow>>] = [n |-> "n1", t |-> StartTime - 1]
    /\ now - (StartTime - 1) < stored.cacheTtlMs

\* ------------------------------------------------ properties of replaceAnchor
\* The conditions under which replaceAnchor may change the anchor a.
MayReplace(a, args) ==
  /\ args.fullAddress \in DOMAIN args.nameMap
  /\ args.nameMap[args.fullAddress] # <<>>
  /\ trim(textContent(a.nodes)) # <<>>
  /\ trim(textContent(a.nodes)) \notin args.ignoreSet
  /\ \/ StartsWith(trim(textContent(a.nodes)), ZeroX)
     \/ EndsWith(trim(textContent(a.nodes)), DotEth) /\ args.replaceEns

\* C25: replaceAnchor changes the text of an anchor only when a name exists
\* for its address and the trimmed display text is not empty, is not an
\* entry of the ignore list, and starts with 0x or, with replaceEns on, ends
\* with .eth; otherwise the text nodes and the data-wns-resolved attribute
\* are as before.  A change puts the name into the first text node that is
\* not blank and sets the attribute.
C25_ReplaceOnlyWhenEligible ==
  [][(raPc = "call" /\ raPc' = "returned") =>
       /\ ~MayReplace(anchor, raArgs) => anchor' = anchor
       /\ anchor' # anchor =>
            /\ anchor'.done
            /\ \E i \in 1..Len(anchor.nodes) :
                 /\ trim(anchor.nodes[i]) # <<>>
                 /\ \A j \in 1..(i - 1) : trim(anchor.nodes[j]) = <<>>
                 /\ anchor'.nodes = [anchor.nodes EXCEPT ![i] =
                                       raArgs.nameMap[raArgs.fullAddress]]]_vars

\* C25 happens: with an ignore list that holds other texts, an anchor whose
\* text began with a blank node was given the name in its second node.
C25_Witness ==
  /\ raPc = "returned"
  /\ anchor = [nodes |-> <<<<" ">>, NameN1>>, done |-> TRUE]
  /\ raArgs.ignoreSet # {}
  /\ ~raArgs.replaceEns

\* ------------------------------------------------- properties of href rules
\* C21: the href rules are tried in the configured order and the first rule
\* whose capture group holds a syntactically valid full address gives the
\* address of the anchor, in lowercase; then neither the full-address
\* pattern nor the subject selector runs for the anchor.  When no rule gives
\* an address, the full-address pattern is tried on the href.
C21_FirstValidRuleDecides ==
  /\ [][(pkPc = "custom" /\ pkPc' # "custom") =>
          IF \E i \in 1..Len(HREF_RULES) : Yields(HREF_RULES[i], pkHref)
          THEN /\ pkPc' = "pushed"
               /\ \E i \in 1..Len(HREF_RULES) :
                    /\ Yields(HREF_RULES[i], pkHref)
                    /\ \A j \in 1..(i - 1) : ~Yields(HREF_RULES[j], pkHref)
                    /\ picked' = toLowerCase(Captured(HREF_RULES[i], pkHref))
          ELSE pkPc' = "extract"]_vars
  /\ [][pkPc = "pushed" => UNCHANGED <<picked, pkAddresses, pkPc>>]_vars
  /\ [](pkPc = "pushed" => pkAddresses = <<>> /\ VALID_ETH_RE(picked))
  /\ [](pkPc \in {"pick", "picked", "secondary"} =>
          /\ \A i \in 1..Len(HREF_RULES) : ~Yields(HREF_RULES[i], pkHref)
          /\ pkAddresses = allAddressesInHref(pkHref))

\* C21 happens: the first rule captured a text that is no address, the
\* second rule captured the address in capitals of the path, and the anchor
\* has that address in lowercase, with a second address in the href that
\* the full-address pattern would have found.
C21_Witness ==
  /\ pkPc = "pushed"
  /\ Len(HREF_RULES) = 2
  /\ ~Yields(HREF_RULES[1], pkHref)
  /\ Captured(HREF_RULES[1], pkHref) # <<>>
  /\ Captured(HREF_RULES[2], pkHref) = AddrUp
  /\ picked = AddrLow
  /\ Len(allAddressesInHref(pkHref)) = 2

\* ------------------------------------------- properties of the options page
\* The patterns a form asks to save: the two pattern fields and the
\* patterns of the href rules that have one.
PatternsOf(f) ==
  ({trim(f.ethRe), trim(f.abbrRe)} \ {<<>>})
    \cup {f.hrefRules.entries[i].pattern.value :
            i \in {k \in 1..Len(f.hrefRules.entries) :
                     ~EntryMalformed(f.hrefRules.entries[k])}}

\* The form must not be saved: a pattern is no regular expression or is
\* flagged by detectReDoS, the href rules are no JSON array of entries with
\* a pattern string, or the RPC URL is not allowed.
MustNotSave(f) ==
  \/ \E p \in PatternsOf(f) : RegExpThrows(p) \/ detectReDoS(p)
  \/ f.hrefRules.json \in {"invalid", "object"}
  \/ \E i \in 1..Len(f.hrefRules.entries) : EntryMalformed(f.hrefRules.entries[i])
  \/ /\ trim(f.rpcUrl) # <<>>
     /\ ~StartsWith(trim(f.rpcUrl), <<"h", "t", "t", "p", "s", ":", "/", "/">>)
     /\ ~StartsWith(trim(f.rpcUrl), <<"h", "t", "t", "p", ":", "/", "/", "l", "o", "c", "a", "l", "h", "o", "s", "t">>)
     /\ ~StartsWith(trim(f.rpcUrl), <<"h", "t", "t", "p", ":", "/", "/", "1", "2", "7", ".", "0", ".", "0", ".", "1">>)

\* C23: a save whose full-address pattern, abbreviated pattern or href rule
\* is no valid regular expression or is flagged by detectReDoS, whose href
\* rules are no JSON array of entries with a pattern string, or whose RPC
\* URL is rejected, writes to neither storage area and sends no CLEAR_CACHE:
\* the handler shows an error and returns, and the stored configuration
\* stays as it was.
C23_RejectedSaveWritesNothing ==
  /\ [](savePc # "off" /\ MustNotSave(form) =>
          /\ areas \in StoredAreas
          /\ sentClear = 0
          /\ configData = <<>>
          /\ savePc \in {"idle", "returned"}
          /\ savePc = "returned" => status = "error")
  /\ [][savePc # "off" /\ MustNotSave(form) => UNCHANGED <<areas, sentClear>>]_vars

\* C23 happens: a save with a full-address pattern that is a valid regular
\* expression with a nested quantifier, and with every other field in
\* order, has ended with an error and the stored configuration is the old one.
C23_Witness ==
  /\ savePc = "returned"
  /\ status = "error"
  /\ form.ethRe = <<"(", "0", "x", "+", ")", "+">>
  /\ form.abbrRe = <<>>
  /\ ~HrefRulesRejected(form.hrefRules)
  /\ Len(form.hrefRules.entries) = 1
  /\ form.rpcUrl = <<>>
  /\ form.maxBatchSize = <<"1">>
  /\ areas.sync = <<OldConfig>>
  /\ areas.useSync

\* The text of a number field holds a number outside lo..hi.
OutOfRange(text, lo, hi) ==
  ~parseInt(text).nan /\ parseInt(text).v \notin lo..hi

\* C24: a batch size outside 1..500 or a cooldown outside 0..30000 ms is
\* rejected and never replaced by another value: a save with such a field
\* ends with an error and builds no configuration, and a configuration that
\* is built carries the numbers of the fields.
C24_OutOfRangeRejected ==
  /\ [](savePc \notin {"off", "idle"}
          /\ (OutOfRange(form.maxBatchSize, 1, 500)
                \/ OutOfRange(form.rpcCooldownMs, 0, 30000))
          => savePc = "returned" /\ status = "error" /\ configData = <<>>)
  /\ [](configData # <<>> =>
          /\ ~parseInt(form.maxBatchSize).nan =>
               configData[1].maxBatchSize = parseInt(form.maxBatchSize).v
          /\ ~parseInt(form.rpcCooldownMs).nan =>
               configData[1].rpcCooldownMs = parseInt(form.rpcCooldownMs).v)

\* --------------------------------- properties of CLEAR_CACHE beside RESOLVE
\* C31: once a CLEAR_CACHE has responded, the store holds no wns_ entry of a
\* RESOLVE request that was in flight when the clear ran: with every RESOLVE
\* message arrived before the CLEAR_CACHE message, the cache is empty from
\* the response on.
C31_NoRepopulationAfterClear ==
  [](cleared # <<>> => \A k \in DOMAIN cache : ~KeyStartsWith(k, "wns_"))

TimerStep == debounceTimer /\ ~debounceTimer'

\* Scan s has gone through collectEthereumLinks in this step.
CollectStep(s) ==
  /\ s <= Len(scans)
  /\ scans[s].pc = "loadConfig"
  /\ scans'[s].pc # "loadConfig"

AnchorsOfLinks(links) == {links[i].anchor : i \in 1..Len(links)}

\* C34: an anchor whose text has been replaced carries data-wns-resolved and
\* no later collectEthereumLinks takes it, the text of each anchor is
\* replaced at most once over the initial scan and all mutation scans, and
\* when the debounce timer fires every queued root that is in the document
\* gets exactly one processRoot call and pendingRoots is left empty.
C34_ReplacedAtMostOnce ==
  /\ [](\A a \in DOMAIN writes : writes[a] <= 1)
  /\ [](\A a \in DOMAIN writes : writes[a] >= 1 => doc.anchors[a].done)
  /\ [][\A s \in 1..MaxScans :
          CollectStep(s) =>
            \A a \in AnchorsOfLinks(scans'[s].links) : ~doc.anchors[a].done]_vars
  /\ [][TimerStep =>
          /\ pendingRoots' = <<>>
          /\ Len(scans') <= Len(scans) + Len(pendingRoots)
          /\ \A i \in 1..Len(pendingRoots) :
               InDocument(doc, pendingRoots[i]) =>
                 Cardinality({s \in Len(scans) + 1..Len(scans') :
                                scans'[s].root = pendingRoots[i]}) = 1]_vars

\* An anchor whose href gives an address by itself: through a rule, or as a
\* full address in it.
HrefGives(a) ==
  \/ Len(HREF_RULES) # 0 /\ matchHrefRules(HREF_RULES, doc.anchors[a].href) # NoAddress
  \/ allAddressesInHref(doc.anchors[a].href) # <<>>

\* Scan s is past collectEthereumLinks.
HasCollected(s) == s <= Len(scans) /\ scans[s].pc # "loadConfig"

\* C33: the SECONDARY branch never contributes a link: every link of a scan
\* comes from the CUSTOM or the PRIMARY branch, so only anchors whose href
\* itself gives an address are collected, and no anchor is collected twice
\* in one scan.
C33_SecondaryNeverCollects ==
  \A s \in 1..MaxScans :
    HasCollected(s) =>
      /\ \A i \in 1..Len(scans[s].links) :
           /\ scans[s].links[i].branch \in {"CUSTOM", "PRIMARY"}
           /\ HrefGives(scans[s].links[i].anchor)
      /\ Cardinality(AnchorsOfLinks(scans[s].links)) = Len(scans[s].links)

\* The scan of the container has passed an anchor whose text abbreviates an
\* address and whose href holds 39 hex digits, and has collected the other
\* anchor.
C33_Witness ==
  /\ HasCollected(1)
  /\ scans[1].root = DivRoot
  /\ doc.anchors[1].href = PathTo(AddrBad)
  /\ doc.anchors[1].nodes = <<AbbrText>>
  /\ AnchorsOfLinks(scans[1].links) = {2}

====
